---- MODULE Spec2Model ----
(***************************************************************************)
(* Invoice ingestion service (src/src/index.tsx): the upload handler       *)
(* POST /api/invoices/upload, the organization endpoints and the client's  *)
(* session freshness guard, as state machines.                             *)
(*                                                                         *)
(* Strings the code takes apart (fileData, fileName, supplierName) are     *)
(* sequences of pieces, each piece a one-or-more character string; the     *)
(* string is the concatenation of its pieces.  Opaque strings (user ids,   *)
(* tokens, error texts) are TLA+ strings.                                  *)
(***************************************************************************)
EXTENDS Integers, Sequences, FiniteSets, TLC

\* ------------------------------------------------------------------ bounds
MaxReq == 2        \* upload requests the model lets arrive
MaxTok == 2        \* distinct values of `${timestamp}_${randomId}`
MaxRuns == 3       \* submits of the create-organization form
MaxCalls == 2
MaxOrgs == 2
MaxUploads == 2      \* calls of the organization endpoints

Reqs == 1..MaxReq
Calls == 1..MaxCalls

\* ------------------------------------------------- JSON values of a body
\* A field of the JSON body: absent (undefined) or present with a value.
Absent(d) == [has |-> FALSE, v |-> d]
Some(x) == [has |-> TRUE, v |-> x]

\* JS truthiness of a string-valued field: undefined and "" are falsy.
TruthyStr(o) == o.has /\ o.v # <<>>
\* JS truthiness of an id-valued field (opaque string).
TruthyId(o) == o.has /\ o.v # ""
\* JS truthiness of a number-valued field: undefined and 0 are falsy.
TruthyNum(o) == o.has /\ o.v # 0

\* ------------------------------------------------------ identity provider
Users == {"u1", "u2"}
NoHeader == "none"
\* supabase.auth.getUser(token): the user a bearer token resolves to.
GetUser(token) ==
  IF token = "tokA" THEN "u1" ELSE IF token = "tokB" THEN "u2" ELSE "nobody"
ValidToken(h) == h # NoHeader /\ GetUser(h) \in Users

\* ------------------------------------------------------------- String ops
IsSpace(ch) == ch \in {" ", "\n", "\t"}

RECURSIVE TrimStart(_)
TrimStart(s) == IF s # <<>> /\ IsSpace(Head(s)) THEN TrimStart(Tail(s)) ELSE s

RECURSIVE TrimEnd(_)
TrimEnd(s) ==
  IF s # <<>> /\ IsSpace(s[Len(s)]) THEN TrimEnd(SubSeq(s, 1, Len(s) - 1)) ELSE s

\* String.prototype.trim
Trim(s) == TrimEnd(TrimStart(s))

\* Index of the first piece equal to ch at or after position i, 0 if none.
RECURSIVE IndexFrom(_, _, _)
IndexFrom(s, ch, i) ==
  IF i > Len(s) THEN 0 ELSE IF s[i] = ch THEN i ELSE IndexFrom(s, ch, i + 1)

\* String.prototype.split(sep): the sequence of parts between separators.
RECURSIVE Split(_, _)
Split(s, sep) ==
  LET i == IndexFrom(s, sep, 1)
  IN  IF i = 0 THEN <<s>>
      ELSE <<SubSeq(s, 1, i - 1)>> \o Split(SubSeq(s, i + 1, Len(s)), sep)

\* ------------------------------------------------------------------ atob
B64Chars ==
  << "A","B","C","D","E","F","G","H","I","J","K","L","M","N","O","P",
     "Q","R","S","T","U","V","W","X","Y","Z","a","b","c","d","e","f",
     "g","h","i","j","k","l","m","n","o","p","q","r","s","t","u","v",
     "w","x","y","z","0","1","2","3","4","5","6","7","8","9","+","/" >>

B64Val(ch) == (CHOOSE i \in 1..64 : B64Chars[i] = ch) - 1
IsB64(ch) == \E i \in 1..64 : B64Chars[i] = ch

RemoveSpaces(s) == SelectSeq(s, LAMBDA ch : ~IsSpace(ch))

\* forgiving-base64: drop one or two trailing "=" when the length is 0 mod 4
StripPad(s) ==
  IF Len(s) % 4 = 0 /\ Len(s) > 0 /\ s[Len(s)] = "="
  THEN IF s[Len(s) - 1] = "=" THEN SubSeq(s, 1, Len(s) - 2)
       ELSE SubSeq(s, 1, Len(s) - 1)
  ELSE s

RECURSIVE DecodeWholeGroups(_)
DecodeWholeGroups(s) ==
  IF Len(s) < 4 THEN <<>>
  ELSE LET n == ((B64Val(s[1]) * 64 + B64Val(s[2])) * 64 + B64Val(s[3])) * 64
                 + B64Val(s[4])
       IN  << n \div 65536, (n \div 256) % 256, n % 256 >>
           \o DecodeWholeGroups(SubSeq(s, 5, Len(s)))

RECURSIVE DecodeGroups(_)
DecodeGroups(s) ==
  IF Len(s) = 0 THEN <<>>
  ELSE IF Len(s) = 2
  THEN << (B64Val(s[1]) * 64 + B64Val(s[2])) \div 16 >>
  ELSE IF Len(s) = 3
  THEN LET n == ((B64Val(s[1]) * 64 + B64Val(s[2])) * 64 + B64Val(s[3])) \div 4
       IN  << n \div 256, n % 256 >>
  ELSE LET n == ((B64Val(s[1]) * 64 + B64Val(s[2])) * 64 + B64Val(s[3])) * 64
                 + B64Val(s[4])
       IN  << n \div 65536, (n \div 256) % 256, n % 256 >>
           \o DecodeGroups(SubSeq(s, 5, Len(s)))

\* atob(data): the decoded bytes, or a thrown InvalidCharacterError.
Atob(data) ==
  LET s == StripPad(RemoveSpaces(data))
  IN  IF Len(s) % 4 = 1 \/ \E i \in 1..Len(s) : ~IsB64(s[i])
      THEN [ok |-> FALSE, bytes |-> <<>>]
      ELSE [ok |-> TRUE, bytes |-> DecodeGroups(s)]

\* ----------------------------------------------------------- content type
\* fileData.match(/data:([^;]+);/): the pieces captured after the first
\* "data:" that is followed by at least one non-";" piece and then a ";".
RECURSIVE MatchFrom(_, _)
MatchFrom(s, i) ==
  IF i > Len(s) THEN [ok |-> FALSE, v |-> <<>>]
  ELSE IF s[i] = "data:"
          /\ LET j == IndexFrom(s, ";", i + 1) IN j > i + 1
  THEN [ok |-> TRUE, v |-> SubSeq(s, i + 1, IndexFrom(s, ";", i + 1) - 1)]
  ELSE MatchFrom(s, i + 1)

ContentTypeMatch(fileData) == MatchFrom(fileData, 1)

ContentTypeOf(fileData) ==
  IF ContentTypeMatch(fileData).ok THEN ContentTypeMatch(fileData).v
  ELSE <<"application/octet-stream">>

\* ------------------------------------------------------------- extension
ToLowerCase(p) ==
  CASE p = "PDF" -> "pdf"
    [] p = "PNG" -> "png"
    [] p = "Invoice" -> "invoice"
    [] OTHER -> p

LowerSeq(s) == [i \in 1..Len(s) |-> ToLowerCase(s[i])]

typeMap(ct) ==
  CASE ct = <<"application/pdf">> -> <<"pdf">>
    [] ct = <<"image/jpeg">> -> <<"jpg">>
    [] ct = <<"image/jpg">> -> <<"jpg">>
    [] ct = <<"image/png">> -> <<"png">>
    [] ct = <<"image/gif">> -> <<"gif">>
    [] ct = <<"image/webp">> -> <<"webp">>
    [] OTHER -> <<>>

\* const fileName = body.fileName || 'invoice.pdf', line 896
DefaultedFileName(opt) == IF TruthyStr(opt) THEN opt.v ELSE <<"invoice", ".", "pdf">>

\* fileExtension of lines 962-981
FileExtension(fileName, contentType) ==
  IF fileName # <<>> /\ IndexFrom(fileName, ".", 1) # 0
  THEN LET parts == Split(fileName, ".") IN LowerSeq(parts[Len(parts)])
  ELSE IF typeMap(contentType) # <<>> THEN typeMap(contentType) ELSE <<"bin">>

\* ------------------------------------------------------------ the state
VARIABLES
  env,        \* worker bindings: env.sms = ClickSend credentials configured
  pc,         \* pc[r]: where upload request r is in the handler
  req,        \* req[r]: the handler's locals for request r
  resp,       \* resp[r]: the HTTP response of request r
  storage,    \* objects of bucket "invoices"
  invoices,   \* rows of table invoices
  nextId,     \* next generated invoice id
  smsOut,     \* requests whose notification went out to the gateway
  vbody,      \* validation as a function: the body under validation
  vresp,      \* validation as a function: its verdict
  cpc,        \* CreateOrganizationModal.handleSubmit: where the run is
  retryCount, \* getFreshSession's parameter in the call in progress
  fetches,    \* calls of supabaseClient.auth.getSession() in this run
  delays,     \* one-second waits started in this run
  fetchLog,   \* what each getSession() of this run returned, in order
  sent,       \* tokens of the create-organization requests sent in this run
  cerror,     \* the modal's error text
  runs,       \* submits so far
  orgEnv,     \* worker bindings: orgEnv.anon = SUPABASE_ANON_KEY configured
  opc,        \* opc[c]: where organization call c is in its handler
  oreq,       \* oreq[c]: the handler's locals for call c
  oresp,      \* oresp[c]: the HTTP response of call c
  organizations,  \* rows of table organizations
  members,    \* rows of table organization_members
  nextOrg,    \* next generated organization id
  dbLog,      \* every access to the two tables: who made it, with which client
  nname,      \* file naming as a function: body.fileName
  npayload,   \* file naming as a function: body.fileData
  ntok,       \* file naming as a function: `${timestamp}_${randomId}`
  nsafe,      \* file naming as a function: the derived extension and safe name
  formOpen,   \* Dashboard: showInvoiceUpload
  selectedFile,     \* Dashboard: selectedFile
  invoiceSupplier,  \* Dashboard: invoiceSupplier
  invoiceAmount,    \* Dashboard: invoiceAmount
  isAnalyzing,      \* Dashboard: isAnalyzing
  uploading,        \* Dashboard: uploading
  fpc,        \* handleFileSelect: "none", "reading" or "analyzing"
  gOutcome,   \* how the model call of the last settled analysis ended
  aresp,      \* the response of the last settled /api/invoices/analyze call
  upc,        \* handleInvoiceUpload: "none", "auth" or "sent"
  uploadsSent,      \* the upload requests the form has sent
  supplierFrom,     \* where invoiceSupplier's value comes from
  amountFrom,       \* where invoiceAmount's value comes from
  filledFor,        \* the file each extracted field value was extracted for
  ppc,        \* OrganizationProvider: where the fetch in progress is
  ploading,   \* OrganizationProvider: loading
  showCreateModal,  \* OrganizationProvider: showCreateModal
  porgs,      \* OrganizationProvider: organizations
  currentOrg, \* OrganizationProvider: currentOrg
  puser,      \* App: user ("nobody" when signed out)
  pmem,       \* for each user, the organizations the database has them in
  pstale,     \* the currentOrg that the running refreshOrganizations closed over
  aoutcome,   \* analysis as a function: how the model call went
  acontent,   \* analysis as a function: the text of the model's reply
  aout,       \* analysis as a function: the endpoint's response
  ienv,       \* invoice endpoints: service key configured, row level security on
  ipc,        \* ipc[c]: where invoice call c is in its handler
  ireq,       \* ireq[c]: the handler's locals for call c
  iresp,      \* iresp[c]: the HTTP response of call c
  dbody,      \* decoding as a function: the text after the delimiter
  dout,       \* decoding as a function: what atob made of it
  ocrEnv,     \* process-ocr: row level security on for the documents table
  documents,  \* documents[d]: the row of the documents table with id d
  ocrPc,      \* ocrPc[c]: where process-ocr call c is in its handler
  ocrReq,     \* ocrReq[c]: the handler's locals for call c
  ocrResp     \* ocrResp[c]: the HTTP response of call c

uploadVars == <<env, pc, req, resp, storage, invoices, nextId, smsOut>>
validateVars == <<vbody, vresp>>
sessionVars == <<cpc, retryCount, fetches, delays, fetchLog, sent, cerror, runs>>
orgVars == <<orgEnv, opc, oreq, oresp, organizations, members, nextOrg, dbLog>>
nameVars == <<nname, npayload, ntok, nsafe>>
formVars == <<formOpen, selectedFile, invoiceSupplier, invoiceAmount, isAnalyzing,
              uploading, fpc, gOutcome, aresp, upc, uploadsSent, supplierFrom,
              amountFrom, filledFor>>
provVars == <<ppc, ploading, showCreateModal, porgs, currentOrg, puser, pmem, pstale>>
analyzeVars == <<aoutcome, acontent, aout>>
invVars == <<ienv, ipc, ireq, iresp>>
decodeVars == <<dbody, dout>>
ocrVars == <<ocrEnv, documents, ocrPc, ocrReq, ocrResp>>
moreVars == <<analyzeVars, invVars, decodeVars, ocrVars>>
extraVars == <<nameVars, formVars, provVars, moreVars>>
coreVars == <<uploadVars, validateVars, sessionVars, orgVars>>
vars == <<uploadVars, validateVars, sessionVars, orgVars, extraVars>>
nonUpload == <<validateVars, sessionVars, orgVars, extraVars>>

\* ------------------------------------------------------ keys, rows, replies
NoKey == [owner |-> "", tok |-> 0, ext |-> <<>>]
\* storagePath = `${userId}/${timestamp}_${randomId}.${fileExtension}`
StoragePath(userId, tok, ext) == [owner |-> userId, tok |-> tok, ext |-> ext]
NoUrl == [bucket |-> "", path |-> NoKey]
\* publicUrl = `${supabaseUrl}/storage/v1/object/public/invoices/${storagePath}`
PublicUrl(path) == [bucket |-> "invoices", path |-> path]

NoInvoice ==
  [id |-> 0, user_id |-> "", supplier_name |-> <<>>, total_amount |-> 0,
   file_url |-> NoUrl, status |-> ""]

NoResp ==
  [status |-> 0, success |-> FALSE, error |-> "", code |-> "",
   invoice |-> NoInvoice, storageUrl |-> NoUrl]
ErrorResp(status, error) == [NoResp EXCEPT !.status = status, !.error = error]
SuccessResp(invoice, url) ==
  [NoResp EXCEPT !.status = 200, !.success = TRUE, !.invoice = invoice,
                 !.storageUrl = url]

NoClient == [key |-> "", bearer |-> NoHeader]
NoCall == [kind |-> "", auth |-> NoHeader, name |-> <<>>, client |-> NoClient,
           user |-> "nobody", orgId |-> 0]
NoOrgResp == [status |-> 0, success |-> FALSE, error |-> "", role |-> "", orgId |-> 0]

NoBody ==
  [fileName |-> Absent(<<>>), userId |-> Absent(""), fileData |-> Absent(<<>>),
   supplierName |-> Absent(<<>>), totalAmount |-> Absent(0)]

NoReq ==
  [auth |-> NoHeader, body |-> NoBody, userId |-> "", supplierName |-> <<>>, totalAmount |-> 0,
   path |-> NoKey, bytes |-> <<>>, contentType |-> <<>>,
   verified |-> FALSE, stored |-> FALSE, insertTried |-> FALSE,
   inserted |-> FALSE, sms |-> "none"]

\* ------------------------------------------------------------ the inputs
UserIds == {Absent(""), Some("u1"), Some("u2")}
PayloadPdf == <<"data:", "application/pdf", ";", "base64", ",", "Q", "U", "J", "D">>
PayloadNoDelimiter == <<"data:", "application/pdf", ";", "base64", "Q", "U", "J", "D">>
PayloadBadBase64 == <<"data:", "image/png", ";", "base64", ",", "Q", "*", "J", "D">>
PayloadPng == <<"data:", "image/png", ";", "base64", ",", "Q", "U", "J", "E">>
FileDatas ==
  {Absent(<<>>), Some(<<>>), Some(PayloadNoDelimiter), Some(PayloadPdf),
   Some(PayloadBadBase64)}
SupplierNames == {Absent(<<>>), Some(<<" ">>), Some(<<"Acme", " ">>)}
TotalAmounts == {Absent(0), Some(0), Some(-1), Some(250)}
FileNames == {Absent(<<>>), Some(<<"Invoice", ".", "PDF">>)}

Bodies ==
  [fileName : FileNames, userId : UserIds, fileData : FileDatas,
   supplierName : SupplierNames, totalAmount : TotalAmounts]

ValidBody ==
  [fileName |-> Absent(<<>>), userId |-> Some("u1"), fileData |-> Some(PayloadPdf),
   supplierName |-> Some(<<"Acme", " ">>), totalAmount |-> Some(250)]

\* The upload requests that arrive: a valid body under each kind of
\* Authorization header (for the caller and for another owner), and, from a
\* signed-in caller, one body for each way a body is refused.
UploadRequests ==
  { [auth |-> "tokA", body |-> ValidBody],
    [auth |-> "tokA", body |-> [ValidBody EXCEPT !.userId = Some("u2")]],
    [auth |-> "tokA", body |-> [ValidBody EXCEPT !.fileData = Some(PayloadPng)]],
    [auth |-> NoHeader, body |-> ValidBody],
    [auth |-> "bad", body |-> [ValidBody EXCEPT !.fileName = Some(<<"Invoice", ".", "PDF">>)]],
    [auth |-> "tokA", body |-> [ValidBody EXCEPT !.userId = Absent("")]],
    [auth |-> "tokA", body |-> [ValidBody EXCEPT !.fileData = Absent(<<>>)]],
    [auth |-> "tokA", body |-> [ValidBody EXCEPT !.fileData = Some(PayloadNoDelimiter)]],
    [auth |-> "tokA", body |-> [ValidBody EXCEPT !.fileData = Some(PayloadBadBase64)]],
    [auth |-> "tokA", body |-> [ValidBody EXCEPT !.supplierName = Some(<<" ">>)]],
    [auth |-> "tokA", body |-> [ValidBody EXCEPT !.totalAmount = Some(0)]],
    [auth |-> "tokA", body |-> [ValidBody EXCEPT !.userId = Absent(""),
                                                 !.totalAmount = Some(-1)]] }

\* ------------------------------------------------- validation, 908-926
ValidateAmountFirst(body) ==
  IF ~TruthyNum(body.totalAmount) \/ body.totalAmount.v <= 0
  THEN "Valid total amount is required"
  ELSE IF ~TruthyId(body.userId) THEN "User ID is required"
  ELSE IF ~TruthyStr(body.fileData) THEN "File data is required"
  ELSE IF ~TruthyStr(body.supplierName) \/ ~TruthyStr(Some(Trim(body.supplierName.v)))
  THEN "Supplier name is required"
  ELSE "ok"

\* The text of the 400 response, or "ok" when every check passes.
Validate(body) ==
  IF ~TruthyId(body.userId) THEN "User ID is required"
  ELSE IF ~TruthyStr(body.fileData) THEN "File data is required"
  ELSE IF ~TruthyStr(body.supplierName) \/ ~TruthyStr(Some(Trim(body.supplierName.v)))
  THEN "Supplier name is required"
  ELSE IF ~TruthyNum(body.totalAmount) \/ body.totalAmount.v <= 0
  THEN "Valid total amount is required"
  ELSE "ok"

\* fileData.split(',')[1]: undefined when there is no ','
Base64DataWhole(fileData) ==
  LET parts == Split(fileData, ",")
  IN  Some(parts[Len(parts)])

Base64Data(fileData) ==
  LET parts == Split(fileData, ",")
  IN  IF Len(parts) >= 2 THEN Some(parts[2]) ELSE Absent(<<>>)

\* ------------------------------------------------------------------ Init
NoAnalyzeResp ==
  [status |-> 0, success |-> FALSE, error |-> "", hasFields |-> FALSE,
   supplier_name |-> <<>>, total_amount |-> 0]

NameIdle ==
  /\ nname = Absent(<<>>)
  /\ npayload = PayloadPdf
  /\ ntok = 1
  /\ nsafe = [done |-> FALSE, ext |-> <<>>, name |-> [tok |-> 0, ext |-> <<>>]]

NoFill == [supplier |-> "none", amount |-> "none"]

FormIdle ==
  /\ formOpen = FALSE
  /\ selectedFile = "none"
  /\ invoiceSupplier = <<>>
  /\ invoiceAmount = Absent(0)
  /\ isAnalyzing = FALSE
  /\ uploading = FALSE
  /\ fpc = "none"
  /\ gOutcome = "none"
  /\ aresp = NoAnalyzeResp
  /\ upc = "none"
  /\ uploadsSent = {}
  /\ supplierFrom = "none"
  /\ amountFrom = "none"
  /\ filledFor = NoFill

ProvIdle ==
  /\ ppc = "unmounted"
  /\ ploading = TRUE
  /\ showCreateModal = FALSE
  /\ porgs = {}
  /\ currentOrg = 0
  /\ puser = "nobody"
  /\ pmem = [u \in Users |-> {}]
  /\ pstale = 0

AnalyzeIdle ==
  /\ aoutcome = "nokey"
  /\ acontent = <<>>
  /\ aout = [done |-> FALSE, resp |-> NoAnalyzeResp]

NoInvCall == [kind |-> "", auth |-> NoHeader, id |-> 0, user |-> "nobody", removed |-> {}]
NoInvResp == [status |-> 0, success |-> FALSE, error |-> "", rows |-> {}]

InvIdle ==
  /\ ienv = [service |-> TRUE, rls |-> TRUE]
  /\ ipc = [c \in Calls |-> "idle"]
  /\ ireq = [c \in Calls |-> NoInvCall]
  /\ iresp = [c \in Calls |-> NoInvResp]

NoDecoded == [done |-> FALSE, ok |-> FALSE, bytes |-> <<>>]

DecodeIdle == dbody = <<>> /\ dout = NoDecoded

DocIds == {1, 2}
NoDoc == [exists |-> FALSE, status |-> "", content |-> ""]
NoOcrCall == [documentId |-> 0, title |-> ""]
NoOcrResp == [status |-> 0, success |-> FALSE, error |-> "", document |-> NoDoc]

OcrIdle ==
  /\ ocrEnv = [rls |-> TRUE]
  /\ documents = [d \in DocIds |-> NoDoc]
  /\ ocrPc = [c \in Calls |-> "idle"]
  /\ ocrReq = [c \in Calls |-> NoOcrCall]
  /\ ocrResp = [c \in Calls |-> NoOcrResp]

MoreIdle == AnalyzeIdle /\ InvIdle /\ DecodeIdle /\ OcrIdle

ExtraIdle == NameIdle /\ FormIdle /\ ProvIdle /\ MoreIdle

SessionIdle ==
  /\ cpc = "idle"
  /\ retryCount = 0
  /\ fetches = 0
  /\ delays = 0
  /\ fetchLog = <<>>
  /\ sent = <<>>
  /\ cerror = ""
  /\ runs = 0

OrgIdle ==
  /\ orgEnv = [anon |-> TRUE]
  /\ opc = [c \in Calls |-> "idle"]
  /\ oreq = [c \in Calls |-> NoCall]
  /\ oresp = [c \in Calls |-> NoOrgResp]
  /\ organizations = {}
  /\ members = {}
  /\ nextOrg = 1
  /\ dbLog = {}

UploadIdle ==
  /\ env = [sms |-> FALSE]
  /\ pc = [r \in Reqs |-> "idle"]
  /\ req = [r \in Reqs |-> NoReq]
  /\ resp = [r \in Reqs |-> NoResp]
  /\ storage = {}
  /\ invoices = {}
  /\ nextId = 1
  /\ smsOut = {}

InitUpload ==
  /\ env \in [sms : BOOLEAN]
  /\ pc = [r \in Reqs |-> "idle"]
  /\ req = [r \in Reqs |-> NoReq]
  /\ resp = [r \in Reqs |-> NoResp]
  /\ storage = {}
  /\ invoices = {}
  /\ nextId = 1
  /\ smsOut = {}

ValidateIdle ==
  /\ vbody = ValidBody
  /\ vresp = ""

Init ==
  /\ InitUpload
  /\ ValidateIdle
  /\ SessionIdle
  /\ OrgIdle
  /\ ExtraIdle

\* ------------------------------------- POST /api/invoices/upload, 890-1117
Finish(r, response) ==
  /\ pc' = [pc EXCEPT ![r] = "done"]
  /\ resp' = [resp EXCEPT ![r] = response]

\* Lines 890-999: parse the body, validate, decode, derive the storage path
\* and issue the storage upload.  The Authorization header is not read.
UploadReceive(r, auth, body, tok) ==
  /\ pc[r] = "idle"
  /\ \A q \in Reqs : q < r => pc[q] # "idle"   \* requests are numbered as they arrive
  /\ LET fileName == DefaultedFileName(body.fileName)
         base64Data == Base64Data(body.fileData.v)
         decoded == Atob(base64Data.v)
         contentType == ContentTypeOf(body.fileData.v)
         ext == FileExtension(fileName, contentType)
     IN  IF Validate(body) # "ok"
         THEN /\ Finish(r, ErrorResp(400, Validate(body)))
              /\ req' = [req EXCEPT ![r] = [NoReq EXCEPT !.auth = auth, !.body = body]]
         ELSE IF ~TruthyStr(base64Data)
         THEN /\ Finish(r, ErrorResp(400, "Invalid file data format"))
              /\ req' = [req EXCEPT ![r] = [NoReq EXCEPT !.auth = auth, !.body = body]]
         ELSE IF ~decoded.ok
         THEN /\ Finish(r, ErrorResp(500, "Internal server error"))
              /\ req' = [req EXCEPT ![r] = [NoReq EXCEPT !.auth = auth, !.body = body]]
         ELSE /\ pc' = [pc EXCEPT ![r] = "storing"]
              /\ req' = [req EXCEPT ![r] =
                   [NoReq EXCEPT !.auth = auth,
                                 !.body = body,
                                 !.userId = body.userId.v,
                                 !.supplierName = body.supplierName.v,
                                 !.totalAmount = body.totalAmount.v,
                                 !.path = StoragePath(body.userId.v, tok, ext),
                                 !.bytes = decoded.bytes,
                                 !.contentType = contentType]]
              /\ UNCHANGED resp
  /\ UNCHANGED <<env, storage, invoices, nextId, smsOut, nonUpload>>

StoredPathsNone == {}

\* The keys the bucket refuses to write again (upsert: false, line 998).
StoredPaths == {o.path : o \in storage}

UploadStoreInsertsAnyway(r, fails) ==
  /\ pc[r] = "storing"
  /\ IF fails \/ req[r].path \in StoredPaths
     THEN /\ pc' = [pc EXCEPT ![r] = "inserting"]
          /\ UNCHANGED <<req, storage, resp>>
     ELSE /\ storage' = storage \cup
                {[path |-> req[r].path, bytes |-> req[r].bytes,
                  contentType |-> req[r].contentType]}
          /\ req' = [req EXCEPT ![r].stored = TRUE]
          /\ pc' = [pc EXCEPT ![r] = "inserting"]
          /\ UNCHANGED resp
  /\ UNCHANGED <<env, invoices, nextId, smsOut, nonUpload>>

\* Lines 994-1024: the storage service answers the upload (upsert: false);
\* on success the handler issues the insert.
UploadStore(r, fails) ==
  /\ pc[r] = "storing"
  /\ IF fails \/ req[r].path \in StoredPaths
     THEN /\ Finish(r, ErrorResp(500, "Storage upload failed"))
          /\ UNCHANGED <<req, storage>>
     ELSE /\ storage' = storage \cup
                {[path |-> req[r].path, bytes |-> req[r].bytes,
                  contentType |-> req[r].contentType]}
          /\ req' = [req EXCEPT ![r].stored = TRUE]
          /\ pc' = [pc EXCEPT ![r] = "inserting"]
          /\ UNCHANGED resp
  /\ UNCHANGED <<env, invoices, nextId, smsOut, nonUpload>>

NewInvoice(r) ==
  [id |-> nextId, user_id |-> req[r].userId,
   supplier_name |-> Trim(req[r].supplierName),
   total_amount |-> req[r].totalAmount,
   file_url |-> PublicUrl(req[r].path), status |-> "processed"]

UploadInsertNotifiesAnyway(r, fails) ==
  /\ pc[r] = "inserting"
  /\ IF fails
     THEN /\ smsOut' = smsOut \cup {r}
          /\ pc' = [pc EXCEPT ![r] = "awaitSms"]
          /\ req' = [req EXCEPT ![r].insertTried = TRUE, ![r].sms = "pending"]
          /\ UNCHANGED <<invoices, nextId, resp>>
     ELSE /\ invoices' = invoices \cup {NewInvoice(r)}
          /\ nextId' = nextId + 1
          /\ Finish(r, SuccessResp(NewInvoice(r), PublicUrl(req[r].path)))
          /\ req' = [req EXCEPT ![r].insertTried = TRUE, ![r].inserted = TRUE,
                                ![r].sms = "skipped"]
          /\ UNCHANGED smsOut
  /\ UNCHANGED <<env, storage, nonUpload>>

\* Lines 1025-1098 and 1103-1107: the database answers the insert; on success
\* the handler either skips the notification and responds, or sends the
\* ClickSend request and awaits its answer.
UploadInsert(r, fails) ==
  /\ pc[r] = "inserting"
  /\ IF fails
     THEN /\ Finish(r, [ErrorResp(500, "Database insert failed") EXCEPT !.code = "dberr"])
          /\ req' = [req EXCEPT ![r].insertTried = TRUE]
          /\ UNCHANGED <<invoices, nextId, smsOut>>
     ELSE /\ invoices' = invoices \cup {NewInvoice(r)}
          /\ nextId' = nextId + 1
          /\ IF env.sms
             THEN /\ smsOut' = smsOut \cup {r}
                  /\ pc' = [pc EXCEPT ![r] = "awaitSms"]
                  /\ req' = [req EXCEPT ![r].insertTried = TRUE, ![r].inserted = TRUE,
                                        ![r].sms = "pending"]
                  /\ resp' = [resp EXCEPT ![r].invoice = NewInvoice(r)]
             ELSE /\ Finish(r, SuccessResp(NewInvoice(r), PublicUrl(req[r].path)))
                  /\ req' = [req EXCEPT ![r].insertTried = TRUE, ![r].inserted = TRUE,
                                        ![r].sms = "skipped"]
                  /\ UNCHANGED smsOut
  /\ UNCHANGED <<env, storage, nonUpload>>

SmsOutcomes == {"ok", "non2xx", "threw"}

SmsReplyThrowLeaks(r, outcome) ==
  IF outcome = "threw" THEN ErrorResp(500, "Internal server error")
  ELSE SuccessResp(resp[r].invoice, PublicUrl(req[r].path))

\* Lines 1089-1107: what the handler returns once the awaited fetch settled
\* (2xx, non-2xx, or a rejection caught by the inner try/catch).
SmsReplyResponse(r, outcome) == SuccessResp(resp[r].invoice, PublicUrl(req[r].path))

\* Lines 1072-1107: the gateway answers (or the fetch rejects).
SmsReply(r, outcome) ==
  /\ pc[r] = "awaitSms"
  /\ Finish(r, SmsReplyResponse(r, outcome))
  /\ req' = [req EXCEPT ![r].sms = outcome]
  /\ UNCHANGED <<env, storage, invoices, nextId, smsOut, nonUpload>>

Next ==
  \/ \E r \in Reqs, q \in UploadRequests, tok \in 1..MaxTok :
       UploadReceive(r, q.auth, q.body, tok)
  \/ \E r \in Reqs, fails \in BOOLEAN : UploadStore(r, fails)
  \/ \E r \in Reqs, fails \in BOOLEAN : UploadInsert(r, fails)
  \/ \E r \in Reqs, outcome \in SmsOutcomes : SmsReply(r, outcome)

Spec == Init /\ [][Next]_vars

\* Validation as a function of the body: every body of Bodies, validated once.
InitValidate ==
  /\ UploadIdle
  /\ SessionIdle
  /\ OrgIdle
  /\ ExtraIdle
  /\ vbody \in Bodies
  /\ vresp = ""

ValidateStep ==
  /\ vresp = ""
  /\ vresp' = Validate(vbody)
  /\ UNCHANGED <<uploadVars, vbody, sessionVars, orgVars, extraVars>>

NextValidate == ValidateStep

SpecValidate == InitValidate /\ [][NextValidate]_vars

\* ------------------------------------ uploads beside the membership table
\* The upload handler run against a database in which one user already owns
\* an organization, or nobody does.
Tenancies ==
  { [organizations |-> {}, members |-> {}],
    [organizations |-> {[id |-> 1, name |-> <<"Acme">>]},
     members |-> {[organization_id |-> 1, user_id |-> "u1", role |-> "owner"]}] }

InitTenant ==
  /\ InitUpload /\ ValidateIdle /\ SessionIdle /\ ExtraIdle
  /\ orgEnv = [anon |-> TRUE]
  /\ opc = [c \in Calls |-> "idle"]
  /\ oreq = [c \in Calls |-> NoCall]
  /\ oresp = [c \in Calls |-> NoOrgResp]
  /\ \E t \in Tenancies : organizations = t.organizations /\ members = t.members
  /\ nextOrg = Cardinality(organizations) + 1
  /\ dbLog = {}

SpecTenant == InitTenant /\ [][Next]_vars

\* ------------------------------------------- file naming as a function
\* The naming steps of the upload handler (lines 896 and 953-991) taken alone,
\* over more file names and payloads than the request set above carries.
PayloadJpeg == <<"data:", "image/jpeg", ";", "base64", ",", "Q", "U", "J", "D">>
PayloadText == <<"data:", "text/plain", ";", "base64", ",", "Q", "U", "J", "D">>
PayloadBare == <<"Q", "U", "J", "D">>
NamePayloads == {PayloadPdf, PayloadPng, PayloadJpeg, PayloadText, PayloadBare}

\* A piece standing for one Hebrew letter (U+05D0..U+05EA).
HebrewLetter == "U+05D7"

NameInputs ==
  { Absent(<<>>),
    Some(<<>>),
    Some(<<"Invoice", ".", "PDF">>),
    Some(<<"scan">>),
    Some(<<"x", ".", "tar", ".", "PNG">>),
    Some(<<"file", ".">>),
    Some(<<"a", ".", "b", "/", "c", " ", "d">>),
    Some(<<"scan", ".", HebrewLetter>>) }

\* safeFileName = `${timestamp}_${randomId}.${fileExtension}`, lines 984-986
SafeFileName(tok, ext) == [tok |-> tok, ext |-> ext]

NoSafeName == [done |-> FALSE, ext |-> <<>>, name |-> SafeFileName(0, <<>>)]

InitName ==
  /\ UploadIdle /\ ValidateIdle /\ SessionIdle /\ OrgIdle /\ FormIdle /\ ProvIdle
  /\ MoreIdle
  /\ nname \in NameInputs
  /\ npayload \in NamePayloads
  /\ ntok \in 1..MaxTok
  /\ nsafe = NoSafeName

NameStep ==
  /\ ~nsafe.done
  /\ LET ext == FileExtension(DefaultedFileName(nname), ContentTypeOf(npayload))
     IN  nsafe' = [done |-> TRUE, ext |-> ext, name |-> SafeFileName(ntok, ext)]
  /\ UNCHANGED <<coreVars, nname, npayload, ntok, formVars, provVars, moreVars>>

NextName == NameStep

SpecName == InitName /\ [][NextName]_vars

\* ------------------------------------------------ OrganizationProvider
\* The client's organization context (lines 1376-1459) and the parts of
\* AppLayout that drive it (lines 1670-1684, 1708-1723, 1794-1798). An
\* organization is its id; 0 is null; data.organizations[0] is the lowest id.
FirstOrg(orgs) == CHOOSE o \in orgs : \A x \in orgs : o <= x
FetchOutcomes == {"ok", "notok", "throw"}

InitProvider ==
  /\ UploadIdle /\ ValidateIdle /\ SessionIdle /\ OrgIdle /\ NameIdle /\ FormIdle
  /\ MoreIdle
  /\ ppc = "unmounted"
  /\ ploading = TRUE
  /\ showCreateModal = FALSE
  /\ porgs = {}
  /\ currentOrg = 0
  /\ puser = "nobody"
  /\ pmem \in {[u \in Users |-> {}], [u \in Users |-> IF u = "u1" THEN {1} ELSE {}]}
  /\ pstale = 0

provRest == <<coreVars, nameVars, formVars, moreVars>>

\* handleAuth (lines 2484-2531) sets the user and the dashboard view: the
\* provider mounts, and useEffect(..., [user]) starts fetchOrganizations().
ProviderMount(u) ==
  /\ ppc = "unmounted"
  /\ puser' = u
  /\ ppc' = "session"
  /\ UNCHANGED <<ploading, showCreateModal, porgs, currentOrg, pmem, pstale, provRest>>

\* Lines 1390-1397: getSession answered; without a token loading ends.
ProviderSession(token) ==
  /\ ppc = "session"
  /\ IF ~token
     THEN ploading' = FALSE /\ ppc' = "settled"
     ELSE ploading' = ploading /\ ppc' = "fetch"
  /\ UNCHANGED <<showCreateModal, porgs, currentOrg, puser, pmem, pstale, provRest>>

\* Lines 1400-1424: GET /api/organizations answered, failed or threw.
ProviderReply(outcome) ==
  /\ ppc = "fetch"
  /\ IF outcome = "ok"
     THEN /\ porgs' = pmem[puser]
          /\ IF pmem[puser] = {}
             THEN showCreateModal' = TRUE /\ UNCHANGED currentOrg
             ELSE currentOrg' = FirstOrg(pmem[puser]) /\ UNCHANGED showCreateModal
     ELSE UNCHANGED <<porgs, showCreateModal, currentOrg>>
  /\ ploading' = FALSE
  /\ ppc' = "settled"
  /\ UNCHANGED <<puser, pmem, pstale, provRest>>

\* onClose: () => setShowCreateModal(false), lines 1794-1798; AppLayout shows
\* only the loading screen while loading.
ModalClose ==
  /\ ~ploading /\ showCreateModal
  /\ showCreateModal' = FALSE
  /\ UNCHANGED <<ppc, ploading, porgs, currentOrg, puser, pmem, pstale, provRest>>

\* The sidebar button, line 1723.
ModalOpen ==
  /\ ~ploading /\ ~showCreateModal
  /\ showCreateModal' = TRUE
  /\ UNCHANGED <<ppc, ploading, porgs, currentOrg, puser, pmem, pstale, provRest>>

\* The organization dropdown, lines 1708-1713.
SwitchOrg(o) ==
  /\ ~ploading /\ Cardinality(porgs) > 1 /\ o \in porgs
  /\ currentOrg' = o
  /\ UNCHANGED <<ppc, ploading, showCreateModal, porgs, puser, pmem, pstale, provRest>>

\* The modal's create call succeeded (lines 1545-1551): onSuccess is
\* handleCreateOrgSuccess (lines 1681-1684), which sets currentOrg and starts
\* refreshOrganizations (setLoading(true)); then onClose.
CreateOrgSuccess ==
  /\ ~ploading /\ showCreateModal
  /\ Cardinality(UNION {pmem[u] : u \in Users}) < MaxOrgs
  /\ LET newOrg == Cardinality(UNION {pmem[u] : u \in Users}) + 1
     IN  /\ pmem' = [pmem EXCEPT ![puser] = @ \cup {newOrg}]
         /\ currentOrg' = newOrg
  /\ pstale' = currentOrg
  /\ ploading' = TRUE
  /\ showCreateModal' = FALSE
  /\ ppc' = "rsession"
  /\ UNCHANGED <<porgs, puser, provRest>>

\* refreshOrganizations, lines 1439-1441: getSession answered.
RefreshSession(token) ==
  /\ ppc = "rsession"
  /\ IF ~token
     THEN ploading' = FALSE /\ ppc' = "settled"
     ELSE ploading' = ploading /\ ppc' = "rfetch"
  /\ UNCHANGED <<showCreateModal, porgs, currentOrg, puser, pmem, pstale, provRest>>

\* refreshOrganizations, lines 1442-1454: the fetch answered.
RefreshReply(ok) ==
  /\ ppc = "rfetch"
  /\ IF ok
     THEN /\ porgs' = pmem[puser]
          /\ currentOrg' = IF pmem[puser] # {} /\ pstale = 0
                           THEN FirstOrg(pmem[puser]) ELSE currentOrg
     ELSE UNCHANGED <<porgs, currentOrg>>
  /\ ploading' = FALSE
  /\ ppc' = "settled"
  /\ UNCHANGED <<showCreateModal, puser, pmem, pstale, provRest>>

\* handleSignOut (lines 2538-2542), from the sidebar button (line 1780): the
\* landing view replaces the provider, whose state is gone.
SignOut ==
  /\ ppc = "settled" /\ ~ploading
  /\ ppc' = "unmounted"
  /\ puser' = "nobody"
  /\ ploading' = TRUE
  /\ showCreateModal' = FALSE
  /\ porgs' = {}
  /\ currentOrg' = 0
  /\ pstale' = 0
  /\ UNCHANGED <<pmem, provRest>>

NextProvider ==
  \/ \E u \in Users : ProviderMount(u)
  \/ \E token \in BOOLEAN : ProviderSession(token)
  \/ \E outcome \in FetchOutcomes : ProviderReply(outcome)
  \/ ModalClose
  \/ ModalOpen
  \/ \E o \in 1..MaxOrgs : SwitchOrg(o)
  \/ CreateOrgSuccess
  \/ \E token \in BOOLEAN : RefreshSession(token)
  \/ \E ok \in BOOLEAN : RefreshReply(ok)
  \/ SignOut

SpecProvider == InitProvider /\ [][NextProvider]_vars

\* ------------------------------------------- POST /api/invoices/analyze
\* What the model answered, as text: pieces are a fence, a newline, a space,
\* prose, or one whole JSON text.
JsonTexts == {"{acme,250}", "{acme}", "{}", "{google,1500}", "null"}
\* JSON.parse of one JSON text; a missing field reads as undefined.
JsonValue(p) ==
  CASE p = "{acme,250}" -> [supplier_name |-> <<"Acme">>, total_amount |-> 250]
    [] p = "{google,1500}" -> [supplier_name |-> <<"Google">>, total_amount |-> 1500]
    [] p = "{acme}" -> [supplier_name |-> <<"Acme">>, total_amount |-> 0]
    [] OTHER -> [supplier_name |-> <<>>, total_amount |-> 0]

\* The markdown code fence (three backquotes) and the fence that opens a
\* json block, each one piece.
Fence == "<fence>"
FenceJson == "<fence>json"

FencedGoogle == <<FenceJson, "\n", "{google,1500}", "\n", Fence>>
TwiceFenced ==
  <<FenceJson, "\n", FenceJson, "\n", "{google,1500}", "\n", Fence, "\n", Fence>>

Contents ==
  { <<>>,
    <<" ", "\n">>,
    <<"{acme,250}">>,
    <<FenceJson, "\n", "{acme,250}", "\n", Fence>>,
    FencedGoogle,
    TwiceFenced,
    <<Fence, "\n", "{acme}", "\n", Fence>>,
    <<Fence, "\n", Fence, "{google,1500}", Fence, Fence>>,
    <<Fence, "\n", FenceJson, "\n", "{acme}", "\n", Fence>>,
    <<Fence, "javascript", "\n", "{acme}", "\n", Fence>>,
    <<"Here it is:", "\n", FenceJson, "\n", "{acme,250}", "\n", Fence>>,
    <<" ", "{}", "\n">>,
    <<"null">>,
    <<"Sorry">> }

\* jsonStr.replace(/<fence>json\n?/g, ''), line 363
RECURSIVE RemoveJsonFences(_)
RemoveJsonFences(s) ==
  IF s = <<>> THEN <<>>
  ELSE IF Head(s) = FenceJson
  THEN IF Len(s) >= 2 /\ s[2] = "\n" THEN RemoveJsonFences(SubSeq(s, 3, Len(s)))
       ELSE RemoveJsonFences(Tail(s))
  ELSE <<Head(s)>> \o RemoveJsonFences(Tail(s))

\* jsonStr.replace(/<fence>\n?/g, ''), lines 363 and 366; what is left of a
\* <fence>json is json.
RECURSIVE RemoveFences(_)
RemoveFences(s) ==
  IF s = <<>> THEN <<>>
  ELSE IF Head(s) = Fence
  THEN IF Len(s) >= 2 /\ s[2] = "\n" THEN RemoveFences(SubSeq(s, 3, Len(s)))
       ELSE RemoveFences(Tail(s))
  ELSE IF Head(s) = FenceJson THEN <<"json">> \o RemoveFences(Tail(s))
  ELSE <<Head(s)>> \o RemoveFences(Tail(s))

StripNothing(content) == Trim(content)

\* Lines 359-367: trim, then strip the markdown code fences.
StripFences(content) ==
  LET jsonStr == Trim(content)
  IN  IF jsonStr # <<>> /\ Head(jsonStr) = FenceJson
      THEN Trim(RemoveFences(RemoveJsonFences(jsonStr)))
      ELSE IF jsonStr # <<>> /\ Head(jsonStr) = Fence
      THEN Trim(RemoveFences(jsonStr))
      ELSE jsonStr

\* JSON.parse(jsonStr), line 370: white space around one JSON text is allowed.
\* The text null parses, and reading a field of null (lines 376-377) throws
\* into the same catch.
ParseJson(jsonStr) ==
  LET t == Trim(jsonStr)
  IN  IF Len(t) = 1 /\ t[1] \in JsonTexts
      THEN [ok |-> TRUE, null |-> t[1] = "null", v |-> JsonValue(t[1])]
      ELSE [ok |-> FALSE, null |-> FALSE, v |-> JsonValue("")]

AnalyzeDegradedResp(error) ==
  [NoAnalyzeResp EXCEPT !.status = 200, !.error = error, !.hasFields = TRUE]

\* The 500 answers of lines 181-186, 282-286, 311-319 and 331-334: an error
\* and details, no supplier_name and no total_amount.
AnalyzeErrorResp(error) ==
  [NoAnalyzeResp EXCEPT !.status = 500, !.error = error]

\* The 200 answers of lines 342-350 and 384-390: an error beside
\* supplier_name: null and total_amount: null.
AnalyzeNullResp(error) ==
  [NoAnalyzeResp EXCEPT !.status = 200, !.error = error, !.hasFields = TRUE]

NoContentAsSuccess ==
  [NoAnalyzeResp EXCEPT !.status = 200, !.success = TRUE, !.hasFields = TRUE]

\* Lines 338-351: no candidates, or an empty text.
NoContentResp == AnalyzeNullResp("No content from Google Gemini")

\* How one call of the endpoint can go: no key configured, the model request
\* threw, was answered non-2xx, with a body that is not JSON, without
\* content, or with content.
ModelOutcomes == {"nokey", "threw", "notok", "badjson", "nocontent", "content"}

\* The handler, lines 171-407, for the client's request (a body with fileData).
AnalyzeHandler(outcome, content) ==
  CASE outcome = "nokey" -> AnalyzeErrorResp("Configuration Error")
    [] outcome = "threw" -> AnalyzeErrorResp("Network error calling Google Gemini")
    [] outcome = "notok" -> AnalyzeErrorResp("Google Gemini API error")
    [] outcome = "badjson" -> AnalyzeErrorResp("Invalid JSON from Google Gemini")
    [] outcome = "nocontent" -> NoContentResp
    [] outcome = "content" /\ content = <<>> -> NoContentResp
    [] OTHER ->
         LET extracted == ParseJson(StripFences(content))
         IN  IF extracted.ok /\ ~extracted.null
             THEN [NoAnalyzeResp EXCEPT !.status = 200, !.success = TRUE,
                     !.hasFields = TRUE,
                     !.supplier_name = extracted.v.supplier_name,
                     !.total_amount = extracted.v.total_amount]
             ELSE AnalyzeNullResp("Failed to parse Gemini response as JSON")

\* ------------------------- GET /api/invoices and DELETE /api/invoices/:id
InvoiceRow(id, owner) ==
  [id |-> id, user_id |-> owner, supplier_name |-> <<"Acme">>, total_amount |-> 250,
   file_url |-> PublicUrl(StoragePath(owner, id, <<"pdf">>)), status |-> "processed"]

\* The table as earlier uploads left it.
InvoiceTables ==
  { {InvoiceRow(1, "u1"), InvoiceRow(2, "u2")},
    {InvoiceRow(1, "u1"), InvoiceRow(2, "u2"), InvoiceRow(3, "u1")} }

InvKinds == {"list", "delete"}
InvAuthHeaders == {NoHeader, "bad", "tokA", "tokB"}
\* c.req.param('id'): a row of u1, a row of u2, or no row's id.
InvoiceIds == {1, 2, 9}

InvFinish(c, response) ==
  /\ ipc' = [ipc EXCEPT ![c] = "done"]
  /\ iresp' = [iresp EXCEPT ![c] = response]

InvError(status, error) == [NoInvResp EXCEPT !.status = status, !.error = error]

\* supabase.auth.getUser(token) through the handler's client: the list
\* handler's client is made with SUPABASE_SERVICE_KEY || 'missing' (line 855),
\* the delete handler's with the hardcoded anon key (line 1130).
InvGetUser(kind, authHeader) ==
  IF kind = "list" /\ ~ienv.service THEN "nobody" ELSE GetUser(authHeader)

\* Lines 842-865 and 1121-1140: header check, client, auth.getUser.
InvReceive(c, kind, authHeader, id) ==
  /\ ipc[c] = "idle"
  /\ \A d \in Calls : d < c => ipc[d] # "idle"   \* calls are numbered as they arrive
  /\ kind = "list" => id = 0
  /\ kind = "delete" => id \in InvoiceIds
  /\ ireq' = [ireq EXCEPT ![c] =
       [NoInvCall EXCEPT !.kind = kind, !.auth = authHeader, !.id = id,
          !.user = IF authHeader = NoHeader THEN "nobody"
                   ELSE InvGetUser(kind, authHeader)]]
  /\ IF authHeader = NoHeader \/ InvGetUser(kind, authHeader) \notin Users
     THEN InvFinish(c, InvError(401, "Unauthorized"))
     ELSE ipc' = [ipc EXCEPT ![c] = kind] /\ UNCHANGED iresp
  /\ UNCHANGED <<ienv, invoices>>

ListMatchesAll(c) == invoices

\* .from('invoices').select('*').eq('user_id', user.id), lines 870-874; the
\* service role is not subject to row level security.
ListMatches(c) == {inv \in invoices : inv.user_id = ireq[c].user}

\* Lines 870-882: the select answered.
InvSelect(c, fails) ==
  /\ ipc[c] = "list"
  /\ IF fails THEN InvFinish(c, InvError(500, "Failed to fetch invoices"))
     ELSE InvFinish(c, [NoInvResp EXCEPT !.status = 200, !.rows = ListMatches(c)])
  /\ UNCHANGED <<ienv, ireq, invoices>>

DeleteMatchesIdOnly(c) ==
  {inv \in invoices : inv.id = ireq[c].id /\ ~ienv.rls}

\* .from('invoices').delete().eq('id', invoiceId).eq('user_id', user.id),
\* lines 1142-1146, through a client that carries the anon key and no user
\* token: under the policy USING (auth.uid() = user_id) no row is visible
\* to it.
DeleteMatches(c) ==
  {inv \in invoices : inv.id = ireq[c].id /\ inv.user_id = ireq[c].user /\ ~ienv.rls}

\* Lines 1142-1153: the delete answered.
InvDelete(c, fails) ==
  /\ ipc[c] = "delete"
  /\ IF fails
     THEN /\ InvFinish(c, InvError(500, "Failed to delete invoice"))
          /\ UNCHANGED <<ireq, invoices>>
     ELSE /\ invoices' = invoices \ DeleteMatches(c)
          /\ ireq' = [ireq EXCEPT ![c].removed = DeleteMatches(c)]
          /\ InvFinish(c, [NoInvResp EXCEPT !.status = 200, !.success = TRUE])
  /\ UNCHANGED ienv

InitInvoices ==
  /\ ValidateIdle /\ SessionIdle /\ OrgIdle
  /\ NameIdle /\ FormIdle /\ ProvIdle /\ AnalyzeIdle /\ DecodeIdle /\ OcrIdle
  /\ env = [sms |-> FALSE]
  /\ pc = [r \in Reqs |-> "idle"]
  /\ req = [r \in Reqs |-> NoReq]
  /\ resp = [r \in Reqs |-> NoResp]
  /\ storage = {}
  /\ invoices \in InvoiceTables
  /\ nextId = 4
  /\ smsOut = {}
  /\ ienv \in [service : BOOLEAN, rls : BOOLEAN]
  /\ ipc = [c \in Calls |-> "idle"]
  /\ ireq = [c \in Calls |-> NoInvCall]
  /\ iresp = [c \in Calls |-> NoInvResp]

invRest ==
  <<env, pc, req, resp, storage, nextId, smsOut, validateVars, sessionVars, orgVars,
    nameVars, formVars, provVars, analyzeVars, decodeVars, ocrVars>>

NextInvoices ==
  \/ \E c \in Calls, kind \in InvKinds, authHeader \in InvAuthHeaders,
        id \in InvoiceIds \cup {0} :
       InvReceive(c, kind, authHeader, id) /\ UNCHANGED invRest
  \/ \E c \in Calls, fails \in BOOLEAN : InvSelect(c, fails) /\ UNCHANGED invRest
  \/ \E c \in Calls, fails \in BOOLEAN : InvDelete(c, fails) /\ UNCHANGED invRest

SpecInvoices == InitInvoices /\ [][NextInvoices]_vars

\* --------------------------------------------- decoding as a function
\* The decode step of the upload handler (lines 944-949) taken alone, over
\* every text of up to MaxBody pieces of a small alphabet.
MaxBody == 4
BodyPieces == {"Q", "U", "I", "J", "=", " "}
BodiesOfLen(n) == [1..n -> BodyPieces]
Base64Bodies == UNION {BodiesOfLen(n) : n \in 1..MaxBody}

InitDecode ==
  /\ UploadIdle /\ ValidateIdle /\ SessionIdle /\ OrgIdle
  /\ NameIdle /\ FormIdle /\ ProvIdle /\ AnalyzeIdle /\ InvIdle /\ OcrIdle
  /\ dbody \in Base64Bodies
  /\ dout = NoDecoded

DecodeStep ==
  /\ ~dout.done
  /\ dout' = [done |-> TRUE, ok |-> Atob(dbody).ok, bytes |-> Atob(dbody).bytes]
  /\ UNCHANGED <<coreVars, nameVars, formVars, provVars, analyzeVars, invVars, dbody,
                 ocrVars>>

NextDecode == DecodeStep

SpecDecode == InitDecode /\ [][NextDecode]_vars

\* ------------------------------------------------ POST /api/process-ocr
\* Lines 25-77.  A document row is created with status 'pending' (line 147);
\* the handler reads it with the anon-key client, which carries no caller
\* token, so with row level security on (unnamed/part_001 164-168) it sees
\* no row.
PendingDoc == [exists |-> TRUE, status |-> "pending", content |-> ""]
OcrDocumentIds == DocIds \cup {0, 9}

OcrFinish(c, response) ==
  /\ ocrPc' = [ocrPc EXCEPT ![c] = "done"]
  /\ ocrResp' = [ocrResp EXCEPT ![c] = response]

OcrError(status, error) == [NoOcrResp EXCEPT !.status = status, !.error = error]

\* Lines 27-34: the body is parsed; a missing documentId answers 400.
OcrReceive(c, documentId) ==
  /\ ocrPc[c] = "idle"
  /\ ocrReq' = [ocrReq EXCEPT ![c].documentId = documentId]
  /\ IF documentId = 0
     THEN OcrFinish(c, OcrError(400, "Document ID is required"))
     ELSE ocrPc' = [ocrPc EXCEPT ![c] = "selecting"] /\ UNCHANGED ocrResp
  /\ UNCHANGED <<ocrEnv, documents>>

\* The rows the handler's client can read and write.
OcrVisible(d) == d \in DocIds /\ documents[d].exists /\ ~ocrEnv.rls

\* Lines 36-45: select by id, .single(); the row's status is not looked at.
OcrSelect(c, fails) ==
  /\ ocrPc[c] = "selecting"
  /\ IF fails \/ ~OcrVisible(ocrReq[c].documentId)
     THEN OcrFinish(c, OcrError(404, "Document not found")) /\ UNCHANGED ocrReq
     ELSE /\ ocrPc' = [ocrPc EXCEPT ![c] = "marking"]
          /\ ocrReq' = [ocrReq EXCEPT ![c].title = "title"]
          /\ UNCHANGED ocrResp
  /\ UNCHANGED <<ocrEnv, documents>>

\* Lines 47-51: update status to 'processing'; the result is not checked.
OcrMark(c, fails) ==
  /\ ocrPc[c] = "marking"
  /\ documents' =
       IF fails \/ ~OcrVisible(ocrReq[c].documentId) THEN documents
       ELSE [documents EXCEPT ![ocrReq[c].documentId].status = "processing"]
  /\ ocrPc' = [ocrPc EXCEPT ![c] = "waiting"]
  /\ UNCHANGED <<ocrEnv, ocrReq, ocrResp>>

\* Lines 53-54: the five-second timer fires.
OcrTimer(c) ==
  /\ ocrPc[c] = "waiting"
  /\ ocrPc' = [ocrPc EXCEPT ![c] = "completing"]
  /\ UNCHANGED <<ocrEnv, documents, ocrReq, ocrResp>>

\* Lines 56-72: update to 'completed' with the mock content, .select().single().
OcrComplete(c, fails) ==
  /\ ocrPc[c] = "completing"
  /\ IF fails \/ ~OcrVisible(ocrReq[c].documentId)
     THEN OcrFinish(c, OcrError(500, "Failed to update document"))
          /\ UNCHANGED documents
     ELSE /\ documents' = [documents EXCEPT ![ocrReq[c].documentId] =
                            [exists |-> TRUE, status |-> "completed", content |-> "mock"]]
          /\ OcrFinish(c, [NoOcrResp EXCEPT !.status = 200, !.success = TRUE,
                            !.document = documents'[ocrReq[c].documentId]])
  /\ UNCHANGED <<ocrEnv, ocrReq>>

InitOcr ==
  /\ UploadIdle /\ ValidateIdle /\ SessionIdle /\ OrgIdle
  /\ NameIdle /\ FormIdle /\ ProvIdle /\ AnalyzeIdle /\ InvIdle /\ DecodeIdle
  /\ ocrEnv \in [rls : BOOLEAN]
  /\ documents \in [DocIds -> {NoDoc, PendingDoc}]
  /\ ocrPc = [c \in Calls |-> "idle"]
  /\ ocrReq = [c \in Calls |-> NoOcrCall]
  /\ ocrResp = [c \in Calls |-> NoOcrResp]

ocrRest == <<coreVars, nameVars, formVars, provVars, analyzeVars, invVars, decodeVars>>

NextOcr ==
  \/ \E c \in Calls, documentId \in OcrDocumentIds :
       OcrReceive(c, documentId) /\ UNCHANGED ocrRest
  \/ \E c \in Calls, fails \in BOOLEAN : OcrSelect(c, fails) /\ UNCHANGED ocrRest
  \/ \E c \in Calls, fails \in BOOLEAN : OcrMark(c, fails) /\ UNCHANGED ocrRest
  \/ \E c \in Calls : OcrTimer(c) /\ UNCHANGED ocrRest
  \/ \E c \in Calls, fails \in BOOLEAN : OcrComplete(c, fails) /\ UNCHANGED ocrRest

SpecOcr == InitOcr /\ [][NextOcr]_vars

\* --------------------------------------------- analysis as a function
InitAnalyze ==
  /\ UploadIdle /\ ValidateIdle /\ SessionIdle /\ OrgIdle
  /\ NameIdle /\ FormIdle /\ ProvIdle /\ InvIdle /\ DecodeIdle /\ OcrIdle
  /\ aoutcome \in ModelOutcomes
  /\ acontent \in Contents
  /\ aout = [done |-> FALSE, resp |-> NoAnalyzeResp]

AnalyzeStep ==
  /\ ~aout.done
  /\ aout' = [done |-> TRUE, resp |-> AnalyzeHandler(aoutcome, acontent)]
  /\ UNCHANGED <<coreVars, nameVars, formVars, provVars, aoutcome, acontent, invVars,
                 decodeVars, ocrVars>>

NextAnalyze == AnalyzeStep

SpecAnalyze == InitAnalyze /\ [][NextAnalyze]_vars

\* ------------------------------------------- the Dashboard's upload form
Files == {"f1", "f2"}
TypedSuppliers == {<<"Beta">>, <<" ">>}
TypedAmounts == {Some(0), Some(99)}

\* The model replies the form's analyses receive: both fields, fenced, one
\* field only, an empty object, and prose.
FormContents ==
  { <<"{acme,250}">>,
    <<FenceJson, "\n", "{acme,250}", "\n", Fence>>,
    <<Fence, "\n", "{acme}", "\n", Fence>>,
    <<" ", "{}", "\n">>,
    <<"Sorry">> }

InitForm ==
  /\ UploadIdle /\ ValidateIdle /\ SessionIdle /\ OrgIdle /\ NameIdle /\ ProvIdle
  /\ MoreIdle
  /\ FormIdle

formRest == <<coreVars, nameVars, provVars, moreVars>>

\* The Upload button's disabled attribute, line 2348.
UploadDisabled ==
  \/ uploading \/ isAnalyzing
  \/ selectedFile = "none"
  \/ Trim(invoiceSupplier) = <<>>
  \/ ~invoiceAmount.has
  \/ invoiceAmount.v <= 0

\* disabled: uploading || isAnalyzing, on the file input, both text inputs
\* and the Cancel button (lines 2294, 2312, 2325, 2342).
InputsDisabled == uploading \/ isAnalyzing

\* setShowInvoiceUpload(true), lines 2166 and 2211
OpenForm ==
  /\ ~formOpen
  /\ formOpen' = TRUE
  /\ UNCHANGED <<selectedFile, invoiceSupplier, invoiceAmount, isAnalyzing, uploading,
                 fpc, gOutcome, aresp, upc, uploadsSent, supplierFrom, amountFrom, filledFor, formRest>>

\* handleFileSelect, lines 1870-1884 and 1946: the file is selected,
\* analysis is flagged and the reader starts.
FileSelect(f) ==
  /\ formOpen /\ ~InputsDisabled
  /\ selectedFile' = f
  /\ isAnalyzing' = TRUE
  /\ fpc' = "reading"
  /\ UNCHANGED <<formOpen, invoiceSupplier, invoiceAmount, uploading, gOutcome, aresp,
                 upc, uploadsSent, supplierFrom, amountFrom, filledFor, formRest>>

\* reader.onerror, lines 1940-1944
ReaderError ==
  /\ fpc = "reading"
  /\ isAnalyzing' = FALSE
  /\ fpc' = "none"
  /\ UNCHANGED <<formOpen, selectedFile, invoiceSupplier, invoiceAmount, uploading,
                 gOutcome, aresp, upc, uploadsSent, supplierFrom, amountFrom, filledFor, formRest>>

\* reader.onloadend up to the fetch, lines 1885-1905: the request is sent.
ReaderLoaded ==
  /\ fpc = "reading"
  /\ fpc' = "analyzing"
  /\ UNCHANGED <<formOpen, selectedFile, invoiceSupplier, invoiceAmount, isAnalyzing,
                 uploading, gOutcome, aresp, upc, uploadsSent, supplierFrom, amountFrom, filledFor,
                 formRest>>

\* The rest of reader.onloadend, lines 1908-1937: the endpoint answered.
AnalyzeSettles(outcome, content) ==
  /\ fpc = "analyzing"
  /\ LET response == AnalyzeHandler(outcome, content)
         ok == response.status \in 200..299
         fillSupplier == ok /\ response.supplier_name # <<>>
         fillAmount == ok /\ response.total_amount # 0
     IN  /\ aresp' = response
         /\ invoiceSupplier' = IF fillSupplier THEN response.supplier_name
                               ELSE invoiceSupplier
         /\ supplierFrom' = IF fillSupplier THEN "extracted" ELSE supplierFrom
         /\ invoiceAmount' = IF fillAmount THEN Some(response.total_amount)
                             ELSE invoiceAmount
         /\ amountFrom' = IF fillAmount THEN "extracted" ELSE amountFrom
         /\ filledFor' = [supplier |-> IF fillSupplier THEN selectedFile
                                          ELSE filledFor.supplier,
                          amount |-> IF fillAmount THEN selectedFile ELSE filledFor.amount]
  /\ gOutcome' = outcome
  /\ isAnalyzing' = FALSE
  /\ fpc' = "none"
  /\ UNCHANGED <<formOpen, selectedFile, uploading, upc, uploadsSent, formRest>>

\* The fetch of line 1894 rejected: the catch and finally of lines 1930-1937.
AnalyzeUnreachable ==
  /\ fpc = "analyzing"
  /\ gOutcome' = "unreachable"
  /\ aresp' = NoAnalyzeResp
  /\ isAnalyzing' = FALSE
  /\ fpc' = "none"
  /\ UNCHANGED <<formOpen, selectedFile, invoiceSupplier, invoiceAmount, uploading, upc,
                 uploadsSent, supplierFrom, amountFrom, filledFor, formRest>>

\* onChange: (e) => setInvoiceSupplier(e.target.value), line 2309
TypeSupplier(name) ==
  /\ formOpen /\ ~InputsDisabled
  /\ invoiceSupplier' = name
  /\ supplierFrom' = "typed"
  /\ filledFor' = [filledFor EXCEPT !.supplier = "none"]
  /\ UNCHANGED <<formOpen, selectedFile, invoiceAmount, isAnalyzing, uploading, fpc,
                 gOutcome, aresp, upc, uploadsSent, amountFrom, formRest>>

\* onChange: (e) => setInvoiceAmount(e.target.value), line 2320
TypeAmount(amount) ==
  /\ formOpen /\ ~InputsDisabled
  /\ invoiceAmount' = amount
  /\ amountFrom' = "typed"
  /\ filledFor' = [filledFor EXCEPT !.amount = "none"]
  /\ UNCHANGED <<formOpen, selectedFile, invoiceSupplier, isAnalyzing, uploading, fpc,
                 gOutcome, aresp, upc, uploadsSent, supplierFrom, formRest>>

\* handleCancelInvoiceUpload, lines 1956-1962, from the Cancel button.
CancelForm ==
  /\ formOpen /\ ~InputsDisabled
  /\ formOpen' = FALSE
  /\ selectedFile' = "none"
  /\ invoiceSupplier' = <<>>
  /\ invoiceAmount' = Absent(0)
  /\ supplierFrom' = "none"
  /\ amountFrom' = "none"
  /\ filledFor' = NoFill
  /\ UNCHANGED <<isAnalyzing, uploading, fpc, gOutcome, aresp, upc, uploadsSent, formRest>>

\* handleInvoiceUpload up to setUploading(true), lines 1964-1989.
ClickUpload ==
  /\ formOpen /\ ~UploadDisabled
  /\ Cardinality(uploadsSent) < MaxUploads
  /\ uploading' = TRUE
  /\ upc' = "auth"
  /\ UNCHANGED <<formOpen, selectedFile, invoiceSupplier, invoiceAmount, isAnalyzing, fpc,
                 gOutcome, aresp, uploadsSent, supplierFrom, amountFrom, filledFor, formRest>>

\* Lines 1991-2036: getUser and getSession answered; without a user or a
\* token the upload is given up, else the file is read and the request sent.
UploadAuth(authenticated) ==
  /\ upc = "auth"
  /\ IF authenticated
     THEN /\ uploadsSent' = uploadsSent \cup
               {[file |-> selectedFile, supplierName |-> Trim(invoiceSupplier),
                 totalAmount |-> invoiceAmount.v]}
          /\ upc' = "sent"
          /\ UNCHANGED uploading
     ELSE /\ uploading' = FALSE
          /\ upc' = "none"
          /\ UNCHANGED uploadsSent
  /\ UNCHANGED <<formOpen, selectedFile, invoiceSupplier, invoiceAmount, isAnalyzing, fpc,
                 gOutcome, aresp, supplierFrom, amountFrom, filledFor, formRest>>

\* Lines 2040-2056: the upload answered; a 2xx answer closes and clears the
\* form, and uploading ends either way.
UploadSettles(ok) ==
  /\ upc = "sent"
  /\ IF ok
     THEN /\ formOpen' = FALSE
          /\ selectedFile' = "none"
          /\ invoiceSupplier' = <<>>
          /\ invoiceAmount' = Absent(0)
          /\ supplierFrom' = "none"
          /\ amountFrom' = "none"
          /\ filledFor' = NoFill
     ELSE UNCHANGED <<formOpen, selectedFile, invoiceSupplier, invoiceAmount,
                      supplierFrom, amountFrom, filledFor>>
  /\ uploading' = FALSE
  /\ upc' = "none"
  /\ UNCHANGED <<isAnalyzing, fpc, gOutcome, aresp, uploadsSent, formRest>>

NextForm ==
  \/ OpenForm
  \/ \E f \in Files : FileSelect(f)
  \/ ReaderError
  \/ ReaderLoaded
  \/ \E outcome \in ModelOutcomes, content \in FormContents :
       AnalyzeSettles(outcome, content)
  \/ AnalyzeUnreachable
  \/ \E name \in TypedSuppliers : TypeSupplier(name)
  \/ \E amount \in TypedAmounts : TypeAmount(amount)
  \/ CancelForm
  \/ ClickUpload
  \/ \E authenticated \in BOOLEAN : UploadAuth(authenticated)
  \/ \E ok \in BOOLEAN : UploadSettles(ok)

SpecForm == InitForm /\ [][NextForm]_vars

\* The storage service and the database answer every call; nothing makes the
\* notification gateway answer.
FairSpec ==
  /\ Spec
  /\ \A r \in Reqs : WF_vars(\E fails \in BOOLEAN : UploadStore(r, fails))
  /\ \A r \in Reqs : WF_vars(\E fails \in BOOLEAN : UploadInsert(r, fails))

\* ------------------ CreateOrganizationModal.handleSubmit, lines 1468-1570
\* What supabaseClient.auth.getSession() can return: an error, no session,
\* a session whose access_token is empty, or a session with a token.
Tokens == {"t1", "t2"}
SessionResults == {"error", "none", "empty"} \cup Tokens
OrgNames == {<<" ">>, <<"My", " ", "Co">>}
CreateOutcomes == {"ok", "status", "threw"}

SessionErrorIgnored(res) == FALSE

\* if (sessionError), line 1488
SessionError(res) == res = "error"

TokenAbsentNullOnly(res) == res \in {"error", "none"}

\* if (!session || !session.access_token), line 1493 (an error comes with a
\* null session)
TokenAbsent(res) == res \in {"error", "none", "empty"}

ShouldRetryAgain(count) == count <= 1

\* if (retryCount === 0), line 1497
ShouldRetry(count) == count = 0

\* Lines 1468-1486: the form is submitted; a blank name ends the run, else
\* getFreshSession() is called and fetches the session.
Submit(orgName) ==
  /\ cpc \in {"idle", "done"}
  /\ runs < MaxRuns
  /\ runs' = runs + 1
  /\ delays' = 0
  /\ fetchLog' = <<>>
  /\ sent' = <<>>
  /\ retryCount' = 0
  /\ IF Trim(orgName) = <<>>
     THEN /\ cerror' = "Organization name is required"
          /\ cpc' = "done"
          /\ fetches' = 0
     ELSE /\ cerror' = ""
          /\ cpc' = "session"
          /\ fetches' = 1
  /\ UNCHANGED <<uploadVars, validateVars, orgVars, extraVars>>

\* Lines 1486-1539: getSession() returned res.
SessionResult(res) ==
  /\ cpc = "session"
  /\ fetchLog' = Append(fetchLog, res)
  /\ IF SessionError(res)
     THEN /\ cerror' = "Failed to get session"
          /\ cpc' = "done"
          /\ UNCHANGED <<sent, delays>>
     ELSE IF TokenAbsent(res)
     THEN IF ShouldRetry(retryCount)
          THEN /\ cerror' = "Retrying authentication..."
               /\ cpc' = "delay"
               /\ delays' = delays + 1
               /\ UNCHANGED sent
          ELSE /\ cerror' = "No active session. Please sign in again."
               /\ cpc' = "done"
               /\ UNCHANGED <<sent, delays>>
     ELSE /\ cerror' = ""
          /\ sent' = Append(sent, res)
          /\ cpc' = "request"
          /\ UNCHANGED delays
  /\ UNCHANGED <<retryCount, fetches, runs, uploadVars, validateVars, orgVars, extraVars>>

\* Lines 1501-1502: the one-second timer fires; getFreshSession(1) fetches
\* the session again.
DelayElapsed ==
  /\ cpc = "delay"
  /\ retryCount' = 1
  /\ fetches' = fetches + 1
  /\ cpc' = "session"
  /\ UNCHANGED <<delays, fetchLog, sent, cerror, runs, uploadVars, validateVars, orgVars, extraVars>>

\* Lines 1541-1569: the create-organization request settled.
CreateResponse(outcome) ==
  /\ cpc = "request"
  /\ cpc' = "done"
  /\ cerror' = CASE outcome = "ok" -> ""
                 [] outcome = "status" -> "Failed to create organization (Status)"
                 [] outcome = "threw" -> "Network error: Please try again"
  /\ UNCHANGED <<retryCount, fetches, delays, fetchLog, sent, runs,
                 uploadVars, validateVars, orgVars, extraVars>>

InitSession == UploadIdle /\ ValidateIdle /\ SessionIdle /\ OrgIdle /\ ExtraIdle

NextSession ==
  \/ \E orgName \in OrgNames : Submit(orgName)
  \/ \E res \in SessionResults : SessionResult(res)
  \/ DelayElapsed
  \/ \E outcome \in CreateOutcomes : CreateResponse(outcome)

SpecSession == InitSession /\ [][NextSession]_vars

\* ------ GET /api/organizations (515-646), POST /api/organizations/create
\* ------ (649-835)
OrgAuthHeaders == {NoHeader, "bad", "tokA", "tokB"}
OrgKinds == {"list", "create"}

CreateServiceClient(authHeader) == [key |-> "service", bearer |-> NoHeader]

\* createClient(supabaseUrl, supabaseAnonKey, {global: {headers:
\* {Authorization: authHeader}}}), lines 552-558 and 704-710
CreateOrgClient(authHeader) == [key |-> "anon", bearer |-> authHeader]

\* One access to a table, as the database sees it.
Access(c, table, op) ==
  [call |-> c, table |-> table, op |-> op, key |-> oreq[c].client.key,
   bearer |-> oreq[c].client.bearer, verifiedUser |-> oreq[c].user]

OrgFinish(c, status, error) ==
  /\ opc' = [opc EXCEPT ![c] = "done"]
  /\ oresp' = [oresp EXCEPT ![c] = [NoOrgResp EXCEPT !.status = status, !.error = error]]

\* Lines 525-561 and 660-714: header check, (create: name check), anon key
\* check, client creation, and the call of auth.getUser(token).
OrgReceive(c, kind, authHeader, name) ==
  /\ opc[c] = "idle"
  /\ \A d \in Calls : d < c => opc[d] # "idle"   \* calls are numbered as they arrive
  /\ IF authHeader = NoHeader
     THEN /\ OrgFinish(c, 401, "Unauthorized")
          /\ oreq' = [oreq EXCEPT ![c] = [NoCall EXCEPT !.kind = kind]]
     ELSE IF kind = "create" /\ Trim(name) = <<>>
     THEN /\ OrgFinish(c, 400, "Organization name is required")
          /\ oreq' = [oreq EXCEPT ![c] = [NoCall EXCEPT !.kind = kind, !.auth = authHeader]]
     ELSE IF ~orgEnv.anon
     THEN /\ OrgFinish(c, 500, "Configuration error - Missing Supabase credentials")
          /\ oreq' = [oreq EXCEPT ![c] = [NoCall EXCEPT !.kind = kind, !.auth = authHeader]]
     ELSE /\ opc' = [opc EXCEPT ![c] = "verify"]
          /\ oreq' = [oreq EXCEPT ![c] =
               [NoCall EXCEPT !.kind = kind, !.auth = authHeader,
                              !.name = IF kind = "create" THEN Trim(name) ELSE <<>>,
                              !.client = CreateOrgClient(authHeader)]]
          /\ UNCHANGED oresp
  /\ UNCHANGED <<orgEnv, organizations, members, nextOrg, dbLog,
                 uploadVars, validateVars, sessionVars, extraVars>>

\* Lines 561-597 and 714-752: auth.getUser(token) answered; an error or no
\* user is a 401, else the first table access is issued.
OrgVerified(c) ==
  /\ opc[c] = "verify"
  /\ IF GetUser(oreq[c].auth) \notin Users
     THEN /\ OrgFinish(c, 401, "Unauthorized")
          /\ UNCHANGED oreq
     ELSE /\ oreq' = [oreq EXCEPT ![c].user = GetUser(oreq[c].auth)]
          /\ opc' = [opc EXCEPT ![c] = IF oreq[c].kind = "list" THEN "select"
                                       ELSE "insertOrg"]
          /\ UNCHANGED oresp
  /\ UNCHANGED <<orgEnv, organizations, members, nextOrg, dbLog,
                 uploadVars, validateVars, sessionVars, extraVars>>

\* Lines 586-625: the membership select answered.
OrgSelect(c, fails) ==
  /\ opc[c] = "select"
  /\ dbLog' = dbLog \cup {Access(c, "organization_members", "select")}
  /\ IF fails THEN OrgFinish(c, 500, "Failed to fetch organizations")
     ELSE OrgFinish(c, 200, "")
  /\ UNCHANGED <<orgEnv, oreq, organizations, members, nextOrg,
                 uploadVars, validateVars, sessionVars, extraVars>>

\* Lines 745-782: the organization insert answered; on success the owner
\* membership insert is issued.
OrgInsert(c, fails) ==
  /\ opc[c] = "insertOrg"
  /\ dbLog' = dbLog \cup {Access(c, "organizations", "insert")}
  /\ IF fails
     THEN /\ OrgFinish(c, 500, "Failed to create organization")
          /\ UNCHANGED <<oreq, organizations, nextOrg>>
     ELSE /\ organizations' = organizations \cup {[id |-> nextOrg, name |-> oreq[c].name]}
          /\ nextOrg' = nextOrg + 1
          /\ oreq' = [oreq EXCEPT ![c].orgId = nextOrg]
          /\ opc' = [opc EXCEPT ![c] = "insertMember"]
          /\ UNCHANGED oresp
  /\ UNCHANGED <<orgEnv, members, uploadVars, validateVars, sessionVars, extraVars>>

PlainMembership(c) ==
  [organization_id |-> oreq[c].orgId, user_id |-> oreq[c].user, role |-> "member"]

\* insert({organization_id: organization.id, user_id: user.id, role: 'owner'}),
\* lines 776-782
OwnerMembership(c) ==
  [organization_id |-> oreq[c].orgId, user_id |-> oreq[c].user, role |-> "owner"]

\* Lines 776-814: the membership insert answered; on an error the cleanup
\* delete is issued, else the call succeeds with role owner.
OrgInsertMember(c, fails) ==
  /\ opc[c] = "insertMember"
  /\ dbLog' = dbLog \cup {Access(c, "organization_members", "insert")}
  /\ IF fails
     THEN /\ opc' = [opc EXCEPT ![c] = "cleanup"]
          /\ UNCHANGED <<oresp, members>>
     ELSE /\ members' = members \cup {OwnerMembership(c)}
          /\ opc' = [opc EXCEPT ![c] = "done"]
          /\ oresp' = [oresp EXCEPT ![c] =
               [NoOrgResp EXCEPT !.status = 200, !.success = TRUE, !.role = "owner",
                                 !.orgId = oreq[c].orgId]]
  /\ UNCHANGED <<orgEnv, oreq, organizations, nextOrg,
                 uploadVars, validateVars, sessionVars, extraVars>>

\* Lines 791-803: the cleanup delete answered (its result is not looked at:
\* the row is removed or, when the database refuses, left in place).
OrgCleanup(c, removed) ==
  /\ opc[c] = "cleanup"
  /\ dbLog' = dbLog \cup {Access(c, "organizations", "delete")}
  /\ organizations' = IF removed THEN {o \in organizations : o.id # oreq[c].orgId}
                      ELSE organizations
  /\ OrgFinish(c, 500, "Failed to add user to organization")
  /\ UNCHANGED <<orgEnv, oreq, members, nextOrg, uploadVars, validateVars, sessionVars, extraVars>>

InitOrg ==
  /\ UploadIdle /\ ValidateIdle /\ SessionIdle /\ ExtraIdle
  /\ orgEnv \in [anon : BOOLEAN]
  /\ opc = [c \in Calls |-> "idle"]
  /\ oreq = [c \in Calls |-> NoCall]
  /\ oresp = [c \in Calls |-> NoOrgResp]
  /\ organizations = {}
  /\ members = {}
  /\ nextOrg = 1
  /\ dbLog = {}

NextOrg ==
  \/ \E c \in Calls, kind \in OrgKinds, authHeader \in OrgAuthHeaders, name \in OrgNames :
       OrgReceive(c, kind, authHeader, name)
  \/ \E c \in Calls : OrgVerified(c)
  \/ \E c \in Calls, fails \in BOOLEAN : OrgSelect(c, fails)
  \/ \E c \in Calls, fails \in BOOLEAN : OrgInsert(c, fails)
  \/ \E c \in Calls, fails \in BOOLEAN : OrgInsertMember(c, fails)
  \/ \E c \in Calls, removed \in BOOLEAN : OrgCleanup(c, removed)

SpecOrg == InitOrg /\ [][NextOrg]_vars

\* ------------------------------------------------------------ properties

\* C1: an upload request without an Authorization header, or with a token the
\* identity provider rejects, is answered 401, writes no object and inserts
\* no invoice row.
UploadRequiresValidToken ==
  \A r \in Reqs :
    (pc[r] = "done" /\ ~ValidToken(req[r].auth)) =>
      (resp[r].status = 401 /\ ~req[r].stored /\ ~req[r].inserted)

\* C2: the service-role client writes (object or row) only after the
\* request's token was verified, and only under the identity that token
\* resolves to.
ServiceWritesOnlyUnderVerifiedIdentity ==
  \A r \in Reqs :
    (req[r].stored \/ req[r].insertTried) =>
      /\ req[r].verified
      /\ req[r].path.owner = GetUser(req[r].auth)
      /\ \A inv \in invoices :
           inv.file_url = PublicUrl(req[r].path) => inv.user_id = GetUser(req[r].auth)

\* C4: every persisted invoice's file_url is the public address of an object
\* its own request wrote before the insert; the insert is attempted only after
\* the storage write succeeded, and a failed storage write ends the request
\* with 500 "Storage upload failed" and no insert.
InsertOnlyAfterStoredObject ==
  /\ \A inv \in invoices :
       \E r \in Reqs :
         /\ req[r].stored /\ req[r].inserted
         /\ inv.file_url = PublicUrl(req[r].path)
         /\ \E o \in storage : o.path = req[r].path /\ o.bytes = req[r].bytes
  /\ \A r \in Reqs : req[r].insertTried => req[r].stored
  /\ \A r \in Reqs : pc[r] = "inserting" => req[r].stored
  /\ \A r \in Reqs :
       (pc[r] = "done" /\ req[r].path # NoKey /\ ~req[r].stored) =>
         (resp[r] = ErrorResp(500, "Storage upload failed") /\ ~req[r].insertTried)

\* C4 witness: one request persisted an invoice and another one's storage
\* write failed.
StoreFailureBesideInvoice ==
  /\ invoices # {}
  /\ \E r \in Reqs : resp[r].error = "Storage upload failed"

\* The fields of the body in the order the contract names them, each with the
\* condition under which it is violated.
FieldOrder == <<"User ID", "File data", "Supplier name", "total amount">>
Violated(body, field) ==
  CASE field = "User ID" -> ~body.userId.has \/ body.userId.v = ""
    [] field = "File data" -> ~body.fileData.has \/ Len(body.fileData.v) = 0
    [] field = "Supplier name" ->
         ~body.supplierName.has
           \/ \A i \in 1..Len(body.supplierName.v) : IsSpace(body.supplierName.v[i])
    [] field = "total amount" -> ~body.totalAmount.has \/ ~(body.totalAmount.v > 0)
MessageNaming(field) ==
  CASE field = "User ID" -> "User ID is required"
    [] field = "File data" -> "File data is required"
    [] field = "Supplier name" -> "Supplier name is required"
    [] field = "total amount" -> "Valid total amount is required"

\* C5: the 400 response names the first violated field in the order userId,
\* file data, supplierName, totalAmount; a body with no violation passes.
ValidationNamesFirstViolation ==
  vresp # "" =>
    /\ (vresp = "ok") = (\A i \in 1..4 : ~Violated(vbody, FieldOrder[i]))
    /\ \A i \in 1..4 :
         (Violated(vbody, FieldOrder[i])
            /\ \A j \in 1..(i - 1) : ~Violated(vbody, FieldOrder[j]))
           => vresp = MessageNaming(FieldOrder[i])

\* C5 witness: totalAmount = 0 with the other fields valid has been refused,
\* and so has a body violating several fields.
ZeroAmountRefused ==
  /\ vresp = "Valid total amount is required"
  /\ vbody.totalAmount = Some(0)
  /\ \A i \in 1..3 : ~Violated(vbody, FieldOrder[i])

\* C6: once validation, storage write and insert succeeded, the response is
\* 200 {success, invoice, storageUrl} whatever the notification step did, and
\* without credentials no outbound request is made.
NotificationNeverChangesResponse ==
  /\ \A r \in Reqs :
       (pc[r] = "done" /\ req[r].inserted) =>
         /\ resp[r].status = 200 /\ resp[r].success /\ resp[r].error = ""
         /\ resp[r].invoice \in invoices
         /\ resp[r].invoice.file_url = PublicUrl(req[r].path)
         /\ resp[r].storageUrl = PublicUrl(req[r].path)
  /\ \A r \in Reqs : req[r].sms = "skipped" => r \notin smsOut
  /\ ~env.sms => smsOut = {}

\* C6 witness: one upload finished after the gateway call threw and another
\* after the gateway answered non-2xx.
NotificationFailedTwice ==
  \E r1, r2 \in Reqs :
    /\ pc[r1] = "done" /\ req[r1].inserted /\ req[r1].sms = "threw"
    /\ pc[r2] = "done" /\ req[r2].inserted /\ req[r2].sms = "non2xx"

\* C7: once the insert succeeded the response is eventually returned, also
\* when the notification gateway never answers.
ResponseDoesNotWaitForGateway ==
  \A r \in Reqs : (req[r].inserted ~> pc[r] = "done")

NoToken(res) == res \in {"none", "empty"}

\* C8: a run fetches the session at most twice, with exactly one delay
\* between the two fetches; when both fetches find no token the run fails
\* with "No active session. Please sign in again." and sends no request.
AtMostOneRetry ==
  /\ fetches <= 2 /\ Len(fetchLog) <= fetches
  /\ delays <= 1
  /\ fetches = 2 => delays = 1
  /\ (Len(fetchLog) = 2 /\ NoToken(fetchLog[1]) /\ NoToken(fetchLog[2])) =>
       /\ cpc = "done"
       /\ cerror = "No active session. Please sign in again."
       /\ sent = <<>>

\* C8 witness: both fetches of a run found no token.
BothFetchesFoundNoToken ==
  /\ cpc = "done" /\ fetches = 2
  /\ fetchLog = <<"none", "empty">>

\* C9: a session fetch that returns an error ends the run at once: it is the
\* last fetch, no delay follows it, and no request is sent.
ErrorIsNotRetried ==
  \A i \in 1..Len(fetchLog) :
    fetchLog[i] = "error" =>
      /\ Len(fetchLog) = i /\ fetches = i
      /\ delays = i - 1
      /\ cpc = "done"
      /\ cerror = "Failed to get session"
      /\ sent = <<>>

\* C9 witness: the second fetch of a run returned an error.
SecondFetchFailed ==
  /\ Len(fetchLog) = 2 /\ fetchLog[2] = "error" /\ cpc = "done"

\* C10: the request is sent at most once per run and never with an absent or
\* empty token; when the first fetch finds no token and the second finds one,
\* it is sent exactly once, with the second fetch's token.
ActionOnceWithFreshToken ==
  /\ Len(sent) <= 1
  /\ \A i \in 1..Len(sent) : sent[i] \in Tokens
  /\ (Len(fetchLog) = 2 /\ NoToken(fetchLog[1]) /\ fetchLog[2] \in Tokens) =>
       sent = <<fetchLog[2]>>
  /\ sent # <<>> => sent = <<fetchLog[Len(fetchLog)]>>

\* C10 witness: the first fetch found no token, the second one did, and the
\* request went out.
RetrySucceeded ==
  /\ fetchLog = <<"none", "t2">>
  /\ sent = <<"t2">>
  /\ cpc = "done"

\* C3: every access of the two organization endpoints to organizations and
\* organization_members goes through a client built from the anon key and the
\* caller's own Authorization header, after that token was verified; none
\* goes through the service-role credential.
OrgTablesOnlyWithCallerToken ==
  \A a \in dbLog :
    a.table \in {"organizations", "organization_members"} =>
      /\ a.key = "anon"
      /\ a.key # "service"
      /\ a.bearer = oreq[a.call].auth
      /\ a.bearer # NoHeader
      /\ a.verifiedUser \in Users
      /\ a.verifiedUser = GetUser(a.bearer)

\* C3 witness: a create call inserted into both tables and a list call read
\* the memberships.
BothOrgEndpointsTouchedTables ==
  /\ \E a \in dbLog : a.table = "organizations" /\ a.op = "insert"
  /\ \E a \in dbLog : a.table = "organization_members" /\ a.op = "insert"
  /\ \E a \in dbLog : a.table = "organization_members" /\ a.op = "select"

\* The request passed the field validation of lines 908-926.
PassedValidation(r) ==
  /\ pc[r] # "idle"
  /\ \A i \in 1..4 : ~Violated(req[r].body, FieldOrder[i])

HasDelimiter(fileData) == \E i \in 1..Len(fileData) : fileData[i] = ","

\* C16: a payload without the ',' delimiter is answered 400 "Invalid file
\* data format"; no object is written and no invoice row inserted for it.
NoDelimiterIsRejected ==
  \A r \in Reqs :
    (PassedValidation(r) /\ ~HasDelimiter(req[r].body.fileData.v)) =>
      /\ pc[r] = "done"
      /\ resp[r] = ErrorResp(400, "Invalid file data format")
      /\ ~req[r].stored /\ ~req[r].insertTried
      /\ req[r].path = NoKey

\* C16 witness: a request whose payload has no delimiter was answered.
NoDelimiterAnswered ==
  \E r \in Reqs :
    /\ pc[r] = "done"
    /\ req[r].body.fileData = Some(PayloadNoDelimiter)
    /\ resp[r].status = 400

\* The base64 body after the delimiter holds a piece outside the alphabet.
MalformedBase64(fileData) ==
  /\ HasDelimiter(fileData)
  /\ LET b == Split(fileData, ",")[2]
     IN  \E i \in 1..Len(b) : ~IsB64(b[i]) /\ ~IsSpace(b[i]) /\ b[i] # "="

\* C17: a payload whose base64 body is malformed is answered 400
\* (InvalidPayloadFormat) and leaves no object and no invoice row.
MalformedBase64Is400 ==
  \A r \in Reqs :
    (PassedValidation(r) /\ MalformedBase64(req[r].body.fileData.v)) =>
      /\ pc[r] = "done"
      /\ resp[r].status = 400
      /\ ~req[r].stored /\ ~req[r].insertTried

\* C18: no key is written twice: when uploads resolve to the same storage
\* key the later store fails with 500 "Storage upload failed", the object
\* first written keeps its bytes, and the failing request inserts no row.
PlacementNeverOverwrites ==
  /\ \A o1, o2 \in storage : o1.path = o2.path => o1 = o2
  /\ \A r1, r2 \in Reqs :
       (r1 # r2 /\ req[r1].stored /\ req[r2].stored) => req[r1].path # req[r2].path
  /\ \A r \in Reqs :
       req[r].stored =>
         \E o \in storage :
           /\ o.path = req[r].path
           /\ o.bytes = req[r].bytes
           /\ o.contentType = req[r].contentType
  /\ \A r1, r2 \in Reqs :
       (r1 # r2 /\ req[r1].stored /\ req[r2].path = req[r1].path /\ pc[r2] = "done") =>
         /\ resp[r2] = ErrorResp(500, "Storage upload failed")
         /\ ~req[r2].insertTried
         /\ \A inv \in invoices : inv = resp[r1].invoice \/ inv.file_url # PublicUrl(req[r2].path)

\* C18 witness: two uploads with different bytes resolved to the same key;
\* one was stored and the other refused.
SecondWriterRefused ==
  \E r1, r2 \in Reqs :
    /\ r1 # r2 /\ req[r1].path = req[r2].path /\ req[r1].bytes # req[r2].bytes
    /\ req[r1].stored /\ pc[r2] = "done"
    /\ resp[r2].error = "Storage upload failed"


\* C19: the storage-safe filename is the generated token plus a sanitized
\* extension: whatever fileName the caller sent, the extension holds no path
\* separator, no whitespace and no non-ASCII character.
UnsafePieces == {"/", "\\", " ", HebrewLetter}
ExtensionIsSanitized ==
  nsafe.done =>
    /\ nsafe.name.tok = ntok
    /\ nsafe.name.ext = nsafe.ext
    /\ \A i \in 1..Len(nsafe.ext) : nsafe.ext[i] \notin UnsafePieces

\* C20: the extension is the lower-cased segment after the last '.' of the
\* fileName the caller supplied, if the caller supplied one holding a '.';
\* otherwise the mapping of the payload's content type; otherwise 'bin'.
SuppliedWithExtension(opt) == TruthyStr(opt) /\ IndexFrom(opt.v, ".", 1) # 0
DocumentedExtension(opt, fileData) ==
  IF SuppliedWithExtension(opt)
  THEN LET parts == Split(opt.v, ".") IN LowerSeq(parts[Len(parts)])
  ELSE IF typeMap(ContentTypeOf(fileData)) # <<>>
       THEN typeMap(ContentTypeOf(fileData))
       ELSE <<"bin">>
ExtensionAsDocumented ==
  nsafe.done => nsafe.ext = DocumentedExtension(nname, npayload)


\* C15: every successful create-organization call has inserted exactly one
\* organization and exactly one membership (that organization, the caller,
\* role owner) for it, and its response carries role owner; no two membership
\* rows share (organization_id, user_id).
CreateSucceeded(c) == opc[c] = "done" /\ oreq[c].kind = "create" /\ oresp[c].success
OnboardingCreatesOwner ==
  /\ \A c \in Calls : CreateSucceeded(c) =>
        /\ oresp[c].role = "owner"
        /\ oresp[c].orgId = oreq[c].orgId
        /\ Cardinality({o \in organizations : o.id = oreq[c].orgId}) = 1
        /\ \A d \in Calls \ {c} : oreq[d].orgId # oreq[c].orgId
        /\ {m \in members : m.organization_id = oreq[c].orgId} =
             {[organization_id |-> oreq[c].orgId, user_id |-> GetUser(oreq[c].auth),
               role |-> "owner"]}
  /\ \A m1, m2 \in members :
        (m1.organization_id = m2.organization_id /\ m1.user_id = m2.user_id) => m1 = m2
TwoOrganizationsOwned ==
  \E c, d \in Calls :
    /\ c # d /\ CreateSucceeded(c) /\ CreateSucceeded(d)
    /\ oreq[c].auth = oreq[d].auth
    /\ Cardinality(members) = 2


\* C13: invoice operations are blocked for a user with zero organization
\* memberships: no invoice is persisted for a user who has no membership.
HasMembership(u) == \E m \in members : m.user_id = u
UploadNeedsMembership == \A inv \in invoices : HasMembership(inv.user_id)


\* C14: whenever the organization provider finishes loading for a signed-in
\* user who has no membership, the create-organization modal is shown, also
\* when no session token was available as the provider mounted.
ProviderPromptsWhenLoaded ==
  [][(ploading /\ ~ploading' /\ pmem'[puser'] = {}) => showCreateModal']_vars


\* C11: extraction is never a prerequisite for persistence: with a file
\* selected and explicit supplier and amount values in the form, and no upload
\* under way, the upload can be started, whether the extraction call has
\* settled, is in flight or never returns.
ExplicitValuesGiven ==
  /\ formOpen /\ selectedFile # "none"
  /\ Trim(invoiceSupplier) # <<>>
  /\ invoiceAmount.has /\ invoiceAmount.v > 0
ManualUploadNeverBlocked ==
  (ExplicitValuesGiven /\ ~uploading) => ~UploadDisabled

\* C12 as stated: when the model request threw or was answered non-2xx, the
\* endpoint yields the degraded result, supplier_name = null and
\* total_amount = null.
ModelRequestFailed == gOutcome \in {"threw", "notok"}
TextReplied == aout.done /\ aoutcome = "content" /\ acontent # <<>>
Extracted(v) ==
  [NoAnalyzeResp EXCEPT !.status = 200, !.success = TRUE, !.hasFields = TRUE,
     !.supplier_name = v.supplier_name, !.total_amount = v.total_amount]
Degraded(r) ==
  /\ r.status = 200 /\ ~r.success /\ r.hasFields
  /\ r.supplier_name = <<>> /\ r.total_amount = 0
Parses(t) == ParseJson(t).ok /\ ~ParseJson(t).null
IsMarker(p) == p \in {Fence, FenceJson}
NotMarker(p) == ~IsMarker(p)
NotBareMarker(p) == p # Fence

\* One layer of fence stripped: the opening marker with its newline, and the
\* closing marker.
OneLayerStripped(content) ==
  LET t == Trim(content)
      opened == IF t # <<>> /\ IsMarker(Head(t)) THEN TrimStart(Tail(t)) ELSE t
  IN  IF t # <<>> /\ IsMarker(Head(t)) /\ opened # <<>> /\ opened[Len(opened)] = Fence
      THEN Trim(SubSeq(opened, 1, Len(opened) - 1))
      ELSE opened

\* C21 as stated: the reply's text is trimmed, ONE layer of code fence is
\* stripped, and the rest is parsed: if it parses the response is a success
\* with the parsed fields, else the degraded result with status 200.
ReplyParsedAfterOneLayer ==
  TextReplied =>
    IF Parses(OneLayerStripped(acontent))
    THEN aout.resp = Extracted(ParseJson(OneLayerStripped(acontent)).v)
    ELSE Degraded(aout.resp)

\* Every marker taken out of a text that starts with a marker: both kinds
\* after a json-tagged start, the bare kind (leaving json of a tagged one)
\* after a bare start.
EveryMarkerStripped(content) ==
  LET t == Trim(content)
  IN  IF t = <<>> \/ ~IsMarker(Head(t)) THEN t
      ELSE IF Head(t) = FenceJson THEN SelectSeq(t, NotMarker)
      ELSE SelectSeq([i \in 1..Len(t) |-> IF t[i] = FenceJson THEN "json" ELSE t[i]],
                     NotBareMarker)

\* C21 as amended: the reply's text is trimmed and, if it starts with a code
\* fence marker, EVERY marker in it is removed (all layers); the rest is
\* parsed: if it parses the response is a success with the parsed fields,
\* else the degraded result with status 200. The fenced Google reply yields
\* Google and 1500.
ReplyParsedAfterEveryMarker ==
  /\ TextReplied =>
       IF Parses(EveryMarkerStripped(acontent))
       THEN aout.resp = Extracted(ParseJson(EveryMarkerStripped(acontent)).v)
       ELSE Degraded(aout.resp)
  /\ (TextReplied /\ acontent = FencedGoogle) =>
       /\ aout.resp.success
       /\ aout.resp.supplier_name = <<"Google">> /\ aout.resp.total_amount = 1500
TwiceFencedReplyExtracted ==
  /\ TextReplied /\ acontent = TwiceFenced
  /\ aout.resp.success /\ aout.resp.supplier_name = <<"Google">>

\* C22: when the model call succeeded but the reply has no text (no
\* candidates, or an empty text), the response is the degraded result, both
\* fields null, and is never a success.
NoTextReplied ==
  aout.done /\ (aoutcome = "nocontent" \/ (aoutcome = "content" /\ acontent = <<>>))
MissingTextIsDegraded ==
  NoTextReplied =>
    /\ Degraded(aout.resp)
    /\ aout.resp.error = "No content from Google Gemini"
EmptyTextAnswered == aout.done /\ aoutcome = "content" /\ acontent = <<>>


\* C23: an invoice row never changes, and it leaves the table only by a
\* DELETE of its own id by a caller whose verified identity is the row's
\* user_id: a DELETE by another caller, or without a valid token, leaves it.
InvoiceLeavesOnlyByOwnerDelete ==
  [][/\ \A n \in invoices' : n \in invoices
     /\ \A inv \in invoices : inv \notin invoices' =>
          \E c \in Calls :
            /\ ipc[c] = "delete" /\ ipc'[c] = "done"
            /\ ireq[c].id = inv.id
            /\ ValidToken(ireq[c].auth) /\ GetUser(ireq[c].auth) = inv.user_id]_vars
ForeignDeleteLeftRow ==
  \E c, d \in Calls :
    /\ ipc[c] = "done" /\ ireq[c].kind = "delete" /\ iresp[c].status = 200
    /\ ireq[c].id = 2 /\ ireq[c].user = "u1" /\ InvoiceRow(2, "u2") \in invoices
    /\ ipc[d] = "done" /\ ireq[d].kind = "delete" /\ ireq[d].removed = {InvoiceRow(1, "u1")}

\* C29: DELETE /api/invoices/:id answers success only if a row with that id
\* owned by the verified caller existed and this request removed it.
DeleteSuccessMeansRemoved ==
  \A c \in Calls :
    (ipc[c] = "done" /\ ireq[c].kind = "delete" /\ iresp[c].success) =>
      \E inv \in ireq[c].removed : inv.id = ireq[c].id /\ inv.user_id = ireq[c].user

\* C30: GET /api/invoices answers with rows only to a caller with a valid
\* token, and every row it answers with has that caller's verified identity
\* as user_id; without a valid token the answer is 401 and no rows.
ListAnswered(c) == ipc[c] = "done" /\ ireq[c].kind = "list"
ListOnlyOwnInvoices ==
  \A c \in Calls : ListAnswered(c) =>
    /\ \A inv \in iresp[c].rows : ValidToken(ireq[c].auth) /\ inv.user_id = GetUser(ireq[c].auth)
    /\ iresp[c].status = 200 => ValidToken(ireq[c].auth)
    /\ ~ValidToken(ireq[c].auth) => iresp[c].status = 401 /\ iresp[c].rows = {}
OwnRowsListedBesideForeign ==
  \E c \in Calls :
    /\ ListAnswered(c) /\ ireq[c].auth = "tokA"
    /\ iresp[c].rows = {InvoiceRow(1, "u1"), InvoiceRow(3, "u1")}
    /\ InvoiceRow(2, "u2") \in invoices


\* RFC 4648 base64 of a byte sequence, with padding.
RECURSIVE Btoa(_)
Btoa(bytes) ==
  IF Len(bytes) = 0 THEN <<>>
  ELSE IF Len(bytes) = 1
  THEN << B64Chars[(bytes[1] \div 4) + 1], B64Chars[((bytes[1] % 4) * 16) + 1],
          "=", "=" >>
  ELSE IF Len(bytes) = 2
  THEN << B64Chars[(bytes[1] \div 4) + 1],
          B64Chars[((bytes[1] % 4) * 16) + (bytes[2] \div 16) + 1],
          B64Chars[((bytes[2] % 16) * 4) + 1], "=" >>
  ELSE << B64Chars[(bytes[1] \div 4) + 1],
          B64Chars[((bytes[1] % 4) * 16) + (bytes[2] \div 16) + 1],
          B64Chars[((bytes[2] % 16) * 4) + (bytes[3] \div 64) + 1],
          B64Chars[(bytes[3] % 64) + 1] >>
       \o Btoa(SubSeq(bytes, 4, Len(bytes)))
\* A valid encoding: whole groups of four, alphabet pieces, then no, one or
\* two "=" at the end, and zero in the bits that the padding cuts off.
ValidBase64(body) ==
  /\ Len(body) > 0 /\ Len(body) % 4 = 0
  /\ \E pad \in 0..2 :
       /\ \A i \in 1..Len(body) :
            IF i > Len(body) - pad THEN body[i] = "=" ELSE IsB64(body[i])
       /\ pad = 1 => (B64Val(body[Len(body) - 1]) % 4) = 0
       /\ pad = 2 => (B64Val(body[Len(body) - 2]) % 16) = 0

\* C24: for a valid encoded body that the decode step accepts, the base64
\* encoding of the decoded (stored) bytes is exactly that body.
DecodeEncodeRoundTrip ==
  (dout.done /\ ValidBase64(dbody)) => dout.ok /\ Btoa(dout.bytes) = dbody
PaddedBodyDecoded ==
  dout.done /\ dbody = <<"Q", "U", "I", "=">> /\ dout.ok /\ dout.bytes = <<65, 66>>


\* ------------------------------------------------------------------- C25
InsertFailed(r) ==
  pc[r] = "done" /\ req[r].stored /\ req[r].insertTried /\ ~req[r].inserted

RowsOf(r) == {i \in invoices : i.file_url = PublicUrl(req[r].path)}

InsertFailureOutcome ==
  /\ \A r \in Reqs :
       InsertFailed(r) =>
         /\ resp[r].status = 500 /\ ~resp[r].success
         /\ resp[r].error = "Database insert failed" /\ resp[r].code = "dberr"
         /\ RowsOf(r) = {}
         /\ \E o \in storage : o.path = req[r].path /\ o.bytes = req[r].bytes
         /\ r \notin smsOut
  /\ \A r \in smsOut : req[r].inserted /\ RowsOf(r) # {}

Dispatched(r) == pc[r] # "awaitSms" /\ pc'[r] = "awaitSms"

\* C25: an upload whose insert failed after its storage write ends with 500
\* 'Database insert failed' carrying the store's error code, has no invoice
\* row, keeps its stored object and sent no notification; a notification is
\* dispatched only by a request whose insert succeeded, and only once.
InsertFailureKeepsObjectSendsNothing ==
  [][/\ InsertFailureOutcome'
     /\ \A r \in Reqs :
          Dispatched(r) => r \notin smsOut /\ req'[r].inserted /\ smsOut' = smsOut \cup {r}
     /\ \A r \in Reqs : r \in smsOut' \ smsOut => Dispatched(r)]_vars

\* C25 witness: one upload finished with the insert failure while its object
\* is in the bucket, and another finished after its notification went out.
InsertFailedBesideNotifiedUpload ==
  \E r, q \in Reqs :
    /\ InsertFailed(r) /\ resp[r].status = 500
    /\ \E o \in storage : o.path = req[r].path
    /\ q \in smsOut /\ pc[q] = "done" /\ req[q].inserted


\* ------------------------------------------------------------------- C26
OcrStarted(c) == ocrPc[c] = "marking" /\ ocrPc'[c] = "waiting"
OcrInFlight(d) ==
  {c \in Calls : ocrPc[c] \in {"waiting", "completing"} /\ ocrReq[c].documentId = d}

\* C26: a processing run starts only on a document whose status is pending,
\* a document's status only moves pending -> processing -> completed, and no
\* document has two runs in flight.
OcrOnlyPendingOnce ==
  [][/\ \A c \in Calls :
          OcrStarted(c) => documents[ocrReq[c].documentId].status = "pending"
     /\ \A d \in DocIds :
          documents'[d].status # documents[d].status =>
            <<documents[d].status, documents'[d].status>> \in
              {<<"pending", "processing">>, <<"processing", "completed">>}
     /\ \A d \in DocIds : Cardinality(OcrInFlight(d)') <= 1]_vars


\* ------------------------------------------------------------------- C27
\* C27: a create-organization call that failed after its organization row
\* was inserted has left no such row, and every organization has an owner
\* membership unless its create call is still between the two inserts.
CreateOrganizationAllOrNothing ==
  /\ \A c \in Calls :
       (opc[c] = "done" /\ oresp[c].status = 500 /\ oreq[c].orgId # 0) =>
         ~\E o \in organizations : o.id = oreq[c].orgId
  /\ \A o \in organizations :
       \/ \E m \in members : m.organization_id = o.id /\ m.role = "owner"
       \/ \E c \in Calls : opc[c] \in {"insertMember", "cleanup"} /\ oreq[c].orgId = o.id


\* ------------------------------------------------------------------- C28
\* C28: once the analysis of the selected file has settled, a field that
\* holds an extracted value holds one extracted for the selected file.
ExtractedFieldsBelongToSelectedFile ==
  (selectedFile # "none" /\ ~isAnalyzing) =>
    /\ supplierFrom = "extracted" => filledFor.supplier = selectedFile
    /\ amountFrom = "extracted" => filledFor.amount = selectedFile

====
